---- MODULE Spec2Model ----
(***************************************************************************)
(* A state-machine model of app_use/agent/service.py: the Agent's run loop *)
(* (run, step, multi_act, _handle_step_error, _make_history_item), and the *)
(* tool-calling-method negotiation (_set_tool_calling_method,              *)
(* _detect_best_tool_calling_method).                                      *)
(*                                                                         *)
(* One action of the model is one stretch of a coroutine between two       *)
(* suspension points (await), or one handler.  The flags paused/stopped    *)
(* are set by pause(), resume() and stop(), which the hooks and the other  *)
(* tasks of the event loop call; these run while the agent's coroutine is  *)
(* suspended at an await.  An external cancellation                        *)
(* (asyncio.CancelledError) can arrive at every await.                     *)
(***************************************************************************)
EXTENDS Integers, Sequences, FiniteSets, TLC

\* ------------------------------------------------------------------ bounds
\* run(max_steps): the number of iterations of the run loop.
MaxSteps == 2
\* The longest action list the model returns (before truncation).
MaxLen == 3
\* settings.max_actions_per_step, chosen small so that truncation happens.
MaxActionsPerStep == 2

\* settings.max_failures.
MaxFailures == 2

\* --------------------------------------------------------------- constants
\* settings.planner_interval (default of Agent.__init__).
PlannerInterval == 1
\* AgentState.n_steps of a fresh AgentState.
FirstStep == 1

\* Python's None.
None == "None"

VARIABLES
    \* self.state (AgentState)
    n_steps, consecutive_failures, last_result, last_model_output, history,
    paused, stopped,
    \* history variable: the number of the step in progress when stop() was
    \* called (0: stop() was not called during a step)
    stopped_in_step,
    \* self.settings
    planner,
    \* self._message_manager: the transcript after the system and task messages
    messages,
    \* self.ActionModel: "all" or "done_only"
    action_model,
    \* run(): position, loop variable, locals
    pc, step, agent_run_error, run_outcome, closed, close_error, initial_actions,
    \* step(): locals
    model_output, result, app_state, exc, exc_from, input_messages,
    \* multi_act(): locals
    caller, actions, results, i,
    \* history variables of the verification (read by no action's guard)
    model_calls, parsed, raw_output, executed, step_history, step_failures, step_n_steps,
    step_messages, step_last_result, step_count,
    \* history variables: the calls of add_state_message and of
    \* _remove_last_state_message in the step in progress; the invocations of
    \* on_step_start and of on_step_end in this run
    state_adds, state_removals, pre_hooks, post_hooks,
    \* the model connection: type(llm).__name__, its model name, and the
    \* attributes _verified_tool_calling_method and _verified_api_keys
    chat_model_library, model_name, llm_method, llm_verified,
    \* settings.tool_calling_method and self.tool_calling_method
    tool_calling_setting, tool_calling_method,
    \* _set_tool_calling_method(): position, the exception it raises
    neg_pc, neg_error,
    \* _detect_best_tool_calling_method(): the probes of the parallel test
    \* and their results, the index of the sequential test
    probe, seq_index,
    \* history variables of the verification
    completed, probes_made, constructions,
    \* AgentMessagePrompt: app_state.pixels_above, app_state.pixels_below, the
    \* lines of interactive_elements_to_string, the lines of the string
    \* _get_app_state_description returns, and the position of its caller
    pixels_above, pixels_below, elements, description, prompt_pc

agent_vars == <<n_steps, consecutive_failures, last_result, last_model_output,
                history, paused, stopped, stopped_in_step, planner, messages,
                action_model, pc, step, agent_run_error, run_outcome, closed,
                close_error,
                initial_actions, model_output, result, app_state, exc, exc_from,
                input_messages, caller, actions, results, i,
                model_calls, parsed, raw_output, executed, step_history,
                step_failures, step_n_steps, step_messages, step_last_result, step_count,
                state_adds, state_removals, pre_hooks, post_hooks>>

neg_vars == <<chat_model_library, model_name, llm_method, llm_verified,
              tool_calling_setting, tool_calling_method, neg_pc, neg_error,
              probe, seq_index, completed, probes_made, constructions>>

prompt_vars == <<pixels_above, pixels_below, elements, description, prompt_pc>>

vars == <<agent_vars, neg_vars, prompt_vars>>

\* ------------------------------------------------------------ data model
\* ActionResult: is_done and error (None when the action succeeded).
ActionResult(done, err) == [is_done |-> done, error |-> err]

\* The results the executor (controller.act) can return.
ExecResults == {ActionResult(FALSE, None), ActionResult(TRUE, None),
                ActionResult(FALSE, "action failed")}

\* `results[-1].error` as a condition.
HasError(r) == r.error # None

\* AgentOutput: the parsed model output with its action list; Python's None
\* for "no model output" is the record with present = FALSE.
AgentOutput(acts) == [present |-> TRUE, action |-> acts]
NoOutput == [present |-> FALSE, action |-> <<>>]

\* The actions of the registry, in the order a batch uses them; "empty" is
\* an action whose model_dump() is {} (every field at its default).
ActionNames == <<"tap", "swipe", "scroll", "enter_text", "long_press">>

\* The action the step synthesizes when the model returns no action twice.
NoopDone == "done(success=False, text='No next action returned by LLM!')"

\* A batch of n actions: n - 1 distinct actions, then done.
Batch(n) == [k \in 1..n |-> IF k = n THEN "done" ELSE ActionNames[k]]

\* The action lists the model can return: none, one empty action, a single
\* action, a batch of max_actions_per_step actions, a batch of MaxLen actions.
ModelOutputs == {<<>>, <<"empty">>, Batch(1), Batch(MaxActionsPerStep), Batch(MaxLen)}

\* ------------------------------------------------------------ transcript
\* MessageManager: the transcript is a sequence of message tags.
IsPrefix(s, t) == Len(s) <= Len(t) /\ SubSeq(t, 1, Len(s)) = s

Count(s, x) == Cardinality({k \in 1..Len(s) : s[k] = x})

RemoveAt(s, k) == SubSeq(s, 1, k - 1) \o SubSeq(s, k + 1, Len(s))

\* add_state_message: stages the ephemeral state message.
AddStateMessage(msgs) == Append(msgs, "state")

\* _remove_last_state_message: removes the most recently staged ephemeral
\* message, and nothing when none is staged.
RemoveLastStateMessage(msgs) ==
    IF Count(msgs, "state") = 0 THEN msgs
    ELSE RemoveAt(msgs, CHOOSE k \in 1..Len(msgs) :
                          /\ msgs[k] = "state"
                          /\ \A j \in (k + 1)..Len(msgs) : msgs[j] # "state")

\* add_model_output: commits the parsed output as an assistant turn.
AddModelOutput(msgs) == Append(msgs, "output")

\* _add_message_with_tokens(message): appends a message.
AddMessageWithTokens(msgs, m) == Append(msgs, m)

\* add_plan(plan, position): inserts the plan at an offset from the end
\* (-1: immediately before the last message); no plan, no message.
AddPlan(msgs, plan, position) ==
    IF plan = None THEN msgs
    ELSE SubSeq(msgs, 1, Len(msgs) + position) \o <<plan>>
         \o SubSeq(msgs, Len(msgs) + position + 1, Len(msgs))

\* get_messages: the system message and the transcript.
GetMessages(msgs) == <<"system">> \o msgs

\* AgentStepInfo.is_last_step.
IsLastStep(step_number, max_steps) == step_number >= max_steps - 1

\* AgentHistoryList.is_done: the last result of the last entry has is_done.
IsDone(h) ==
    /\ Len(h) > 0
    /\ Len(h[Len(h)].result) > 0
    /\ h[Len(h)].result[Len(h[Len(h)].result)].is_done

\* ------------------------------------------------------------ variable groups
state_vars == <<n_steps, consecutive_failures, last_result, last_model_output, history>>
flag_vars == <<paused, stopped, stopped_in_step>>
setting_vars == <<planner, initial_actions>>
mm_vars == <<messages, action_model>>
close_vars == <<closed, close_error>>
run_vars == <<step, agent_run_error, run_outcome, close_vars>>
step_vars == <<model_output, result, app_state, exc, exc_from, input_messages>>
act_vars == <<caller, actions, results, i, executed>>
ghost_vars == <<model_calls, parsed, raw_output, step_history, step_failures, step_n_steps,
                step_messages, step_last_result, step_count>>
count_vars == <<state_adds, state_removals>>
hook_vars == <<pre_hooks, post_hooks>>

\* The configurations of the agent: no planner, a planner that only logs, a
\* planner in reasoning mode; with and without initial actions.
Configs == {<<"off", <<>>>>, <<"simple", <<>>>>, <<"reasoning", <<>>>>,
            <<"off", <<"tap", "swipe", "scroll">>>>}

\* The AgentState the agent is constructed over: a fresh AgentState(), or an
\* injected_agent_state, here the state an earlier run left whose only step
\* failed to capture the app state (one failure counted, its error result,
\* no history entry).
AgentStates ==
    {[consecutive_failures |-> 0, last_result |-> <<>>],
     [consecutive_failures |-> 1, last_result |-> <<ActionResult(FALSE, "Exception")>>]}

\* ------------------------------------------------- tool-calling methods
\* methods_to_try of _detect_best_tool_calling_method, in preference order.
MethodsToTry == <<"function_calling", "tools", "json_mode", "raw">>

Methods == {MethodsToTry[k] : k \in 1..Len(MethodsToTry)}

\* The values of settings.tool_calling_method.
Settings == {"auto"} \cup Methods

\* The model connections: the class name of the llm and its model name.
Connections ==
    {<<"ChatOpenAI", "gpt-4o">>, <<"AzureChatOpenAI", "gpt-4-turbo">>,
     <<"AzureChatOpenAI", "gpt-35">>, <<"ChatAnthropic", "claude-3-opus">>,
     <<"ChatGoogleGenerativeAI", "gemini-pro">>, <<"ChatOllama", "deepseek-r1">>,
     <<"ChatOllama", "mistral">>}

\* `pattern in model_lower` for the model names of Connections.
Contains(name, pattern) ==
    \/ name = "gpt-4o" /\ pattern = "gpt-4"
    \/ name = "gpt-4-turbo" /\ pattern \in {"gpt-4", "gpt-4-"}
    \/ name = "claude-3-opus" /\ pattern = "claude-3"
    \/ name = "deepseek-r1" /\ pattern = "deepseek-r1"

\* is_model_without_tool_support(model_name).
IsModelWithoutToolSupport(name) == Contains(name, "deepseek-r1")

\* _get_known_tool_calling_method: the static table.
KnownToolCallingMethod(library, name) ==
    IF library = "ChatOpenAI"
    THEN IF \E m \in {"gpt-4", "gpt-3.5"} : Contains(name, m) THEN "function_calling"
         ELSE IF \E m \in {"llama-4", "llama-3"} : Contains(name, m) THEN "function_calling"
         ELSE None
    ELSE IF library = "ChatGroq"
    THEN IF \E m \in {"llama-4", "llama-3"} : Contains(name, m) THEN "function_calling"
         ELSE None
    ELSE IF library = "AzureChatOpenAI"
    THEN IF Contains(name, "gpt-4-") THEN "tools" ELSE "function_calling"
    ELSE IF library = "ChatGoogleGenerativeAI" THEN None
    ELSE IF library \in {"ChatAnthropic", "AnthropicChat"}
    THEN IF \E m \in {"claude-3", "claude-2"} : Contains(name, m) THEN "tools" ELSE None
    ELSE IF IsModelWithoutToolSupport(name) THEN "raw"
    ELSE None

\* No probe of the parallel test is running.
NoProbes == [m \in Methods |-> "idle"]

\* The negotiation of an agent whose constructor has returned, with
\* function_calling negotiated on a verified connection.
NegotiationDone ==
    /\ chat_model_library = "ChatOpenAI"
    /\ model_name = "gpt-4o"
    /\ llm_method = "function_calling"
    /\ llm_verified = "True"
    /\ tool_calling_setting = "auto"
    /\ tool_calling_method = "function_calling"
    /\ neg_pc = "neg_done"
    /\ neg_error = None
    /\ probe = NoProbes
    /\ seq_index = 0
    /\ completed = <<>>
    /\ probes_made = 0
    /\ constructions = 1

\* No AgentMessagePrompt is being rendered.
NoPrompt ==
    /\ pixels_above = <<>>
    /\ pixels_below = <<>>
    /\ elements = <<>>
    /\ description = <<>>
    /\ prompt_pc = "idle"

\* ------------------------------------------------------------------- Init
\* The agent's fields and the locals of run() at the start of run().
AgentInit ==
    /\ n_steps = FirstStep
    /\ last_model_output = NoOutput
    /\ history = <<>>
    /\ paused = FALSE
    /\ stopped = FALSE
    /\ stopped_in_step = 0
    /\ messages = <<"task">>
    /\ action_model = "all"
    /\ pc = "run_start"
    /\ step = 0
    /\ agent_run_error = None
    /\ run_outcome = "running"
    /\ closed = 0
    /\ close_error = FALSE
    /\ model_output = NoOutput
    /\ result = <<>>
    /\ app_state = FALSE
    /\ exc = None
    /\ exc_from = None
    /\ input_messages = <<>>
    /\ caller = None
    /\ actions = <<>>
    /\ results = <<>>
    /\ i = 0
    /\ model_calls = 0
    /\ parsed = <<>>
    /\ raw_output = <<>>
    /\ executed = <<>>
    /\ step_history = <<>>
    /\ step_failures = 0
    /\ step_n_steps = 0
    /\ step_messages = <<>>
    /\ step_last_result = <<>>
    /\ step_count = 0
    /\ state_adds = 0
    /\ state_removals = 0
    /\ pre_hooks = 0
    /\ post_hooks = 0

\* The agent after Agent.__init__, before run(): its tool-calling method is
\* negotiated.
Init ==
    /\ AgentInit
    /\ \E st \in AgentStates :
         /\ consecutive_failures = st.consecutive_failures
         /\ last_result = st.last_result
    /\ \E c \in Configs : planner = c[1] /\ initial_actions = c[2]
    /\ NegotiationDone
    /\ NoPrompt

\* ---------------------------------------------------- pause, resume, stop
\* The awaits of run(), step() and multi_act(): the places where the
\* coroutine is suspended and another task or a hook can run.
Suspended == pc \in {"poll_sleep", "hook_start", "hook_end", "planner_call",
                     "model_call", "model_retry", "act_exec", "act_sleep",
                     "retry_sleep"}

\* Agent.pause
Pause ==
    /\ Suspended
    /\ ~paused
    /\ paused' = TRUE
    /\ UNCHANGED <<neg_vars, prompt_vars, stopped, stopped_in_step, state_vars, setting_vars, mm_vars, pc, run_vars,
                   step_vars, act_vars, ghost_vars, count_vars, hook_vars>>

\* Agent.resume
Resume ==
    /\ Suspended
    /\ paused
    /\ paused' = FALSE
    /\ UNCHANGED <<neg_vars, prompt_vars, stopped, stopped_in_step, state_vars, setting_vars, mm_vars, pc, run_vars,
                   step_vars, act_vars, ghost_vars, count_vars, hook_vars>>

\* Agent.stop
Stop ==
    /\ Suspended
    /\ ~stopped
    /\ stopped' = TRUE
    /\ stopped_in_step' = IF pc \in {"poll_sleep", "hook_start", "hook_end"} \/ caller = "run"
                          THEN stopped_in_step ELSE step_count
    /\ UNCHANGED <<neg_vars, prompt_vars, paused, state_vars, setting_vars, mm_vars, pc, run_vars,
                   step_vars, act_vars, ghost_vars, count_vars, hook_vars>>

\* ------------------------------------------------------------------- run
\* run(): an exception leaves the try block; `except Exception` re-raises it
\* and a CancelledError passes the handlers; the finally block follows.
RunRaises ==
    /\ pc' = "run_finally"
    /\ run_outcome' = "raised"

\* run(): the initial actions, when given, are executed by multi_act.
RunStart ==
    /\ pc = "run_start"
    /\ IF initial_actions # <<>>
       THEN /\ pc' = "act_check"
            /\ caller' = "run"
            /\ actions' = initial_actions
            /\ results' = <<>>
            /\ i' = 0
            /\ executed' = <<>>
       ELSE /\ pc' = "loop_head"
            /\ UNCHANGED act_vars
    /\ UNCHANGED <<neg_vars, prompt_vars, state_vars, flag_vars, setting_vars, mm_vars, run_vars,
                   step_vars, ghost_vars, count_vars, hook_vars>>

\* A faulty failure check, which lets one more step start: it is told apart
\* from FailureHalt by property C5.
FailureHaltOffByOne(failures, max_failures) == failures > max_failures

\* A faulty range, with one iteration more: it is told apart from
\* RangeExhausted by property C18.
RangeExhaustedOneLater(s, max_steps) == s > max_steps

\* run(): `for step in range(max_steps)` has no value left for step.
RangeExhausted(s, max_steps) == s >= max_steps

\* run(): the check of the consecutive failures at the head of an iteration.
FailureHalt(failures, max_failures) == failures >= max_failures

\* A faulty head of the loop, without the check of the stopped flag: it is
\* told apart from LoopHead by property C16.
LoopHeadIgnoresStop ==
    /\ pc = "loop_head"
    /\ IF RangeExhausted(step, MaxSteps)
       THEN /\ agent_run_error' = "Failed to complete task in maximum steps"
            /\ pc' = "run_finally"
            /\ run_outcome' = "returned"
       ELSE IF FailureHalt(consecutive_failures, MaxFailures)
       THEN /\ agent_run_error' = "Stopped due to consecutive failures"
            /\ pc' = "run_finally"
            /\ run_outcome' = "returned"
       ELSE /\ pc' = "poll"
            /\ UNCHANGED <<agent_run_error, run_outcome>>
    /\ UNCHANGED <<neg_vars, prompt_vars, state_vars, flag_vars, setting_vars, mm_vars, step, close_vars,
                   step_vars, act_vars, ghost_vars, count_vars, hook_vars>>

\* run(): the head of `for step in range(max_steps)`: the loop's else branch
\* when the range is exhausted, the failure check (its reason, 'Stopped due
\* to {max_failures} consecutive failures', is written without the number),
\* the stopped check.
LoopHead ==
    /\ pc = "loop_head"
    /\ IF RangeExhausted(step, MaxSteps)
       THEN /\ agent_run_error' = "Failed to complete task in maximum steps"
            /\ pc' = "run_finally"
            /\ run_outcome' = "returned"
       ELSE IF FailureHalt(consecutive_failures, MaxFailures)
       THEN /\ agent_run_error' = "Stopped due to consecutive failures"
            /\ pc' = "run_finally"
            /\ run_outcome' = "returned"
       ELSE IF stopped
       THEN /\ agent_run_error' = "Agent stopped programmatically"
            /\ pc' = "run_finally"
            /\ run_outcome' = "returned"
       ELSE /\ pc' = "poll"
            /\ UNCHANGED <<agent_run_error, run_outcome>>
    /\ UNCHANGED <<neg_vars, prompt_vars, state_vars, flag_vars, setting_vars, mm_vars, step, close_vars,
                   step_vars, act_vars, ghost_vars, count_vars, hook_vars>>

\* run(): the condition of `while self.state.paused`.
Poll ==
    /\ pc = "poll"
    /\ pc' = IF paused THEN "poll_sleep" ELSE "hook_start"
    /\ pre_hooks' = IF paused THEN pre_hooks ELSE pre_hooks + 1
    /\ UNCHANGED <<neg_vars, prompt_vars, state_vars, flag_vars, setting_vars, mm_vars, run_vars,
                   step_vars, act_vars, ghost_vars, count_vars, post_hooks>>

\* A faulty polling loop, which ends the run when it finds the agent
\* stopped: it is told apart from PollSleep by property C37.
PollSleepEndsRun ==
    /\ pc = "poll_sleep"
    /\ IF stopped
       THEN /\ agent_run_error' = "Agent stopped programmatically while paused"
            /\ pc' = "run_finally"
            /\ run_outcome' = "returned"
       ELSE /\ pc' = "poll"
            /\ UNCHANGED <<agent_run_error, run_outcome>>
    /\ UNCHANGED <<neg_vars, prompt_vars, state_vars, flag_vars, setting_vars, mm_vars, step,
                   close_vars, step_vars, act_vars, ghost_vars, count_vars, hook_vars>>

\* A faulty polling loop, which does not look at the stop flag: it is told
\* apart from PollSleep by property C30.
PollSleepIgnoresStop ==
    /\ pc = "poll_sleep"
    /\ pc' = "poll"
    /\ UNCHANGED <<neg_vars, prompt_vars, state_vars, flag_vars, setting_vars, mm_vars, run_vars,
                   step_vars, act_vars, ghost_vars, count_vars, hook_vars>>

\* run(): asyncio.sleep(0.2) of the polling loop returns; a stop leaves the
\* polling loop (and only it).
PollSleep ==
    /\ pc = "poll_sleep"
    /\ IF stopped
       THEN /\ agent_run_error' = "Agent stopped programmatically while paused"
            /\ pc' = "hook_start"
            /\ pre_hooks' = pre_hooks + 1
       ELSE /\ pc' = "poll"
            /\ UNCHANGED <<agent_run_error, pre_hooks>>
    /\ UNCHANGED <<neg_vars, prompt_vars, state_vars, flag_vars, setting_vars, mm_vars, step,
                   run_outcome, close_vars, step_vars, act_vars, ghost_vars, count_vars,
                   post_hooks>>

\* run(): the polling sleep is cancelled.
PollCancelled ==
    /\ pc = "poll_sleep"
    /\ RunRaises
    /\ UNCHANGED <<neg_vars, prompt_vars, state_vars, flag_vars, setting_vars, mm_vars, step,
                   agent_run_error, close_vars, step_vars, act_vars, ghost_vars, count_vars, hook_vars>>

\* run(): a hook (on_step_start, on_step_end) raises: `except
\* KeyboardInterrupt` returns the history, `except Exception` raises again,
\* a CancelledError passes the handlers.
HookRaises ==
    /\ pc \in {"hook_start", "hook_end"}
    /\ \E e \in {"KeyboardInterrupt", "Exception", "Cancelled"} :
         IF e = "KeyboardInterrupt"
         THEN /\ agent_run_error' = "KeyboardInterrupt"
              /\ run_outcome' = "returned"
              /\ pc' = "run_finally"
         ELSE /\ RunRaises
              /\ UNCHANGED agent_run_error
    /\ UNCHANGED <<neg_vars, prompt_vars, state_vars, flag_vars, setting_vars, mm_vars, step,
                   close_vars, step_vars, act_vars, ghost_vars, count_vars, hook_vars>>

\* run(): on_step_start, then step(step_info) is entered.
StepStart ==
    /\ pc = "hook_start"
    /\ pc' = "step_begin"
    /\ step_history' = history
    /\ step_failures' = consecutive_failures
    /\ step_n_steps' = n_steps
    /\ step_messages' = messages
    /\ step_last_result' = last_result
    /\ step_count' = step_count + 1
    /\ UNCHANGED <<neg_vars, prompt_vars, state_vars, flag_vars, setting_vars, mm_vars, run_vars,
                   step_vars, act_vars, model_calls, parsed, raw_output, count_vars,
                   hook_vars>>

\* The locals of step() and multi_act() outside a call.
NoLocals ==
    /\ model_output' = NoOutput
    /\ result' = <<>>
    /\ app_state' = FALSE
    /\ exc' = None
    /\ exc_from' = None
    /\ input_messages' = <<>>
    /\ caller' = None
    /\ actions' = <<>>
    /\ results' = <<>>
    /\ i' = 0
    /\ executed' = <<>>
    /\ model_calls' = 0
    /\ parsed' = <<>>
    /\ raw_output' = <<>>
    /\ step_history' = <<>>
    /\ step_failures' = 0
    /\ step_n_steps' = 0
    /\ step_messages' = <<>>
    /\ step_last_result' = <<>>
    /\ state_adds' = 0
    /\ state_removals' = 0

\* A faulty loop, which invokes on_step_end only after a step that recorded
\* a history entry: it is told apart from StepReturns by property C29.
StepReturnsSkipsHook ==
    /\ pc = "step_done"
    /\ NoLocals
    /\ IF history # step_history
       THEN /\ pc' = "hook_end"
            /\ post_hooks' = post_hooks + 1
            /\ UNCHANGED step
       ELSE /\ pc' = "loop_head"
            /\ step' = step + 1
            /\ UNCHANGED post_hooks
    /\ UNCHANGED <<neg_vars, prompt_vars, state_vars, flag_vars, setting_vars, mm_vars, agent_run_error,
                   run_outcome, close_vars, step_count, pre_hooks>>

\* step() returns to run(): its locals are gone.
StepReturns ==
    /\ pc = "step_done"
    /\ NoLocals
    /\ pc' = "hook_end"
    /\ post_hooks' = post_hooks + 1
    /\ UNCHANGED <<neg_vars, prompt_vars, state_vars, flag_vars, setting_vars, mm_vars, run_vars, step_count,
                   pre_hooks>>

\* A faulty completion check, which is left out after the last step: it is
\* told apart from StepEnd by property C17.
StepEndChecksEarly ==
    /\ pc = "hook_end"
    /\ IF IsDone(history) /\ step < MaxSteps - 1
       THEN /\ pc' = "run_finally"
            /\ run_outcome' = "returned"
            /\ UNCHANGED step
       ELSE /\ pc' = "loop_head"
            /\ step' = step + 1
            /\ UNCHANGED run_outcome
    /\ UNCHANGED <<neg_vars, prompt_vars, state_vars, flag_vars, setting_vars, mm_vars, agent_run_error,
                   close_vars, step_vars, act_vars, ghost_vars, count_vars, hook_vars>>

\* run(): on_step_end, then the completion check.
StepEnd ==
    /\ pc = "hook_end"
    /\ IF IsDone(history)
       THEN /\ pc' = "run_finally"
            /\ run_outcome' = "returned"
            /\ UNCHANGED step
       ELSE /\ pc' = "loop_head"
            /\ step' = step + 1
            /\ UNCHANGED run_outcome
    /\ UNCHANGED <<neg_vars, prompt_vars, state_vars, flag_vars, setting_vars, mm_vars, agent_run_error,
                   close_vars, step_vars, act_vars, ghost_vars, count_vars, hook_vars>>

\* run(): multi_act has returned the results of the initial actions.
InitialDone ==
    /\ pc = "initial_done"
    /\ last_result' = results
    /\ NoLocals
    /\ pc' = "loop_head"
    /\ UNCHANGED <<neg_vars, prompt_vars, n_steps, consecutive_failures, last_model_output, history,
                   flag_vars, setting_vars, mm_vars, run_vars, step_count, hook_vars>>

\* A faulty cleanup, made only when run() returns: it is told apart from
\* RunFinally by property C19.
RunFinallyOnReturn ==
    /\ pc = "run_finally"
    /\ IF run_outcome = "returned"
       THEN /\ closed' = closed + 1
            /\ close_error' \in BOOLEAN
       ELSE UNCHANGED close_vars
    /\ pc' = "run_done"
    /\ UNCHANGED <<neg_vars, prompt_vars, state_vars, flag_vars, setting_vars, mm_vars, step,
                   agent_run_error, run_outcome, step_vars, act_vars, ghost_vars, count_vars, hook_vars>>

\* run(): the finally block: close() calls app.close(), whose exception
\* (close_error) it catches and logs.
RunFinally ==
    /\ pc = "run_finally"
    /\ closed' = closed + 1
    /\ close_error' \in BOOLEAN
    /\ pc' = "run_done"
    /\ UNCHANGED <<neg_vars, prompt_vars, state_vars, flag_vars, setting_vars, mm_vars, step,
                   agent_run_error, run_outcome, step_vars, act_vars, ghost_vars, count_vars, hook_vars>>

\* ------------------------------------------------------------------ step
\* The error texts of step() and multi_act().
PausedMsg == "The agent was paused mid-step - the last action might need to be repeated"
CtrlCMsg == "The agent was paused with Ctrl+C"
ActionCancelledMsg == "The action was cancelled due to Ctrl+C"

\* The exceptions get_next_action raises to step(): a parse failure
\* (ValueError 'Could not parse response'), a rate limit, any other exception.
ModelErrors == {"ParseError", "RateLimitError", "Exception"}

\* _handle_step_error: the text of the error result.
ErrorMsg(e) ==
    IF e = "ParseError"
    THEN "Could not parse response. Return a valid JSON object with the required fields."
    ELSE "Exception"

\* A faulty check of the flags, which looks at stopped only: it is told apart
\* from StoppedOrPaused by property C14.
StoppedOnly == stopped

\* _raise_if_stopped_or_paused.
StoppedOrPaused == stopped \/ paused

\* A faulty _make_history_item, which puts the entry in front of the history:
\* it is told apart from MakeHistoryItem by property C6.
MakeHistoryItemPrepends(h, mo, res, n) ==
    <<[model_output |-> mo.present, result |-> res, step_number |-> n]>> \o h

\* _make_history_item: one entry appended to the history; of the model
\* output the entry keeps whether there is one.
MakeHistoryItem(h, mo, res, n) ==
    Append(h, [model_output |-> mo.present, result |-> res, step_number |-> n])

\* A faulty finally block, which records a history entry without a
\* snapshot too: it is told apart from StepFinally by property C38.
StepFinallyAlwaysRecords(h, mo, as, res, n) ==
    IF res = <<>> THEN h ELSE MakeHistoryItem(h, mo, res, n)

\* A faulty finally block, which records no entry: it is told apart from
\* StepFinally by property C20.
StepFinallySkips(h, mo, as, res, n) == h

\* step(): the finally block: nothing when the step has no result, one
\* history entry when the app state was captured.
StepFinally(h, mo, as, res, n) ==
    IF res = <<>> THEN h
    ELSE IF as THEN MakeHistoryItem(h, mo, res, n)
    ELSE h

\* step(): the planner runs in this step.
PlannerRuns == planner # "off" /\ n_steps % PlannerInterval = 0

\* step(): on the last step the directive message is appended.
LastStepMessages(msgs) ==
    IF IsLastStep(step, MaxSteps) THEN AddMessageWithTokens(msgs, "directive") ELSE msgs

\* A faulty last step, which leaves the action model: it is told apart from
\* LastStepActionModel by property C12.
LastStepActionModelUnrestricted(am) == am

\* step(): on the last step the action model is restricted to done.
LastStepActionModel(am) == IF IsLastStep(step, MaxSteps) THEN "done_only" ELSE am

\* step(): from the last-step block to the first call of get_next_action.
PrepareModelCall(msgs) ==
    /\ messages' = LastStepMessages(msgs)
    /\ action_model' = LastStepActionModel(action_model)
    /\ input_messages' = GetMessages(messages')
    /\ pc' = "model_call"

\* step(): an exception is in flight to the handlers of the outer try.
StepRaises(e, from) ==
    /\ exc' = e
    /\ exc_from' = from
    /\ pc' = "step_except"

\* step(): get_app_state raises.
StepAppStateRaises ==
    /\ pc = "step_begin"
    /\ StepRaises("Exception", "get_app_state")
    /\ UNCHANGED <<neg_vars, prompt_vars, state_vars, flag_vars, setting_vars, mm_vars, run_vars,
                   model_output, result, app_state, input_messages, act_vars, ghost_vars, count_vars, hook_vars>>

\* step(): create_procedural_memory raises.
StepMemoryRaises ==
    /\ pc = "step_begin"
    /\ app_state' = TRUE
    /\ StepRaises("Exception", "memory")
    /\ UNCHANGED <<neg_vars, prompt_vars, state_vars, flag_vars, setting_vars, mm_vars, run_vars,
                   model_output, result, input_messages, act_vars, ghost_vars, count_vars, hook_vars>>

\* step(): the app state is captured; the first check of the flags; the state
\* message is staged; up to the first await (the planner or the model).
StepBegin ==
    /\ pc = "step_begin"
    /\ app_state' = TRUE
    /\ IF StoppedOrPaused
       THEN /\ StepRaises("Interrupted", "first_check")
            /\ UNCHANGED <<mm_vars, input_messages, state_adds>>
       ELSE IF PlannerRuns
       THEN /\ messages' = AddStateMessage(messages)
            /\ state_adds' = state_adds + 1
            /\ pc' = "planner_call"
            /\ UNCHANGED <<action_model, input_messages, exc, exc_from>>
       ELSE /\ PrepareModelCall(AddStateMessage(messages))
            /\ state_adds' = state_adds + 1
            /\ UNCHANGED <<exc, exc_from>>
    /\ UNCHANGED <<neg_vars, prompt_vars, state_vars, flag_vars, setting_vars, run_vars,
                   model_output, result, act_vars, ghost_vars, state_removals, hook_vars>>

\* _run_planner: planner_llm.ainvoke returns (in reasoning mode the guidance
\* is appended to the transcript) or raises (caught and logged); the plan it
\* returns to step() is None.
PlannerReturns ==
    /\ pc = "planner_call"
    /\ \E ok \in BOOLEAN :
         LET guided == IF ok /\ planner = "reasoning"
                       THEN AddMessageWithTokens(messages, "guidance")
                       ELSE messages
         IN  PrepareModelCall(AddPlan(guided, None, -1))
    /\ UNCHANGED <<neg_vars, prompt_vars, state_vars, flag_vars, setting_vars, run_vars,
                   model_output, result, app_state, exc, exc_from, act_vars, ghost_vars, count_vars, hook_vars>>

\* _run_planner: planner_llm.ainvoke is cancelled; CancelledError is no
\* Exception, so it leaves _run_planner and reaches the outer handlers.
PlannerCancelled ==
    /\ pc = "planner_call"
    /\ StepRaises("Cancelled", "planner")
    /\ UNCHANGED <<neg_vars, prompt_vars, state_vars, flag_vars, setting_vars, mm_vars, run_vars,
                   model_output, result, app_state, input_messages, act_vars, ghost_vars, count_vars, hook_vars>>

\* step(): get_messages (or a call of the last-step block) raises, after the
\* state message was staged and outside the inner try: the exception reaches
\* `except Exception` of the outer try.
GetMessagesRaises ==
    /\ \/ /\ pc = "step_begin"
          /\ ~StoppedOrPaused
          /\ ~PlannerRuns
          /\ app_state' = TRUE
          /\ messages' = LastStepMessages(AddStateMessage(messages))
          /\ state_adds' = state_adds + 1
       \/ /\ pc = "planner_call"
          /\ \E ok \in BOOLEAN :
               LET guided == IF ok /\ planner = "reasoning"
                             THEN AddMessageWithTokens(messages, "guidance")
                             ELSE messages
               IN  messages' = LastStepMessages(AddPlan(guided, None, -1))
          /\ UNCHANGED <<app_state, state_adds>>
    /\ action_model' = LastStepActionModel(action_model)
    /\ StepRaises("Exception", "get_messages")
    /\ UNCHANGED <<neg_vars, prompt_vars, state_vars, flag_vars, setting_vars, run_vars,
                   model_output, result, input_messages, act_vars, ghost_vars,
                   state_removals, hook_vars>>

\* ------------------------------------------------------- get_next_action
\* The outputs that validate against the current action model: restricted to
\* done, the schema admits no other action.
ValidOutputs(am) ==
    IF am = "done_only"
    THEN {o \in ModelOutputs : \A k \in 1..Len(o) : o[k] \in {"done", "empty"}}
    ELSE ModelOutputs

\* A faulty cut, which keeps one action less: it is told apart from Truncate
\* by property C11.
TruncateOneLess(acts) ==
    IF Len(acts) > MaxActionsPerStep THEN SubSeq(acts, 1, MaxActionsPerStep - 1) ELSE acts

\* get_next_action: the parsed action list is cut to max_actions_per_step.
Truncate(acts) ==
    IF Len(acts) > MaxActionsPerStep THEN SubSeq(acts, 1, MaxActionsPerStep) ELSE acts

\* A faulty emptiness test, which takes a list of all-default actions for a
\* list of actions: it is told apart from IsEmptyOutput by property C10.
IsEmptyOutputIgnoresDefaults(acts) == acts = <<>>

\* step(): the model returned no action, or only actions whose dump is {}.
IsEmptyOutput(acts) ==
    acts = <<>> \/ \A k \in 1..Len(acts) : acts[k] = "empty"

\* step(): the action list after the retry: the synthesized done action when
\* the second output is empty too.
AfterRetry(acts) == IF IsEmptyOutput(acts) THEN <<NoopDone>> ELSE acts

\* Faulty inner handlers, which raise and leave the state message: they are
\* told apart from ModelPhaseRaises by property C8.
ModelPhaseRaisesKeeps(e, from) ==
    /\ messages' = messages
    /\ state_removals' = state_removals
    /\ StepRaises(e, from)

\* step(): the inner handlers remove the state message and raise.
ModelPhaseRaises(e, from) ==
    /\ messages' = RemoveLastStateMessage(messages)
    /\ state_removals' = state_removals + 1
    /\ StepRaises(e, from)

\* A faulty order, which advances the step counter before the second check
\* of the flags: it is told apart from PostModel by property C15.
PostModelCountsFirst(acts) ==
    /\ model_output' = AgentOutput(acts)
    /\ n_steps' = n_steps + 1
    /\ IF StoppedOrPaused
       THEN /\ ModelPhaseRaises("Interrupted", "second_check")
            /\ UNCHANGED act_vars
       ELSE \/ /\ messages' = AddModelOutput(RemoveLastStateMessage(messages))
               /\ state_removals' = state_removals + 1
               /\ pc' = "act_check"
               /\ caller' = "step"
               /\ actions' = acts
               /\ results' = <<>>
               /\ i' = 0
               /\ executed' = <<>>
               /\ UNCHANGED <<exc, exc_from>>
            \/ /\ ModelPhaseRaises("Exception", "save_conversation")
               /\ UNCHANGED act_vars
            \/ /\ messages' = RemoveLastStateMessage(RemoveLastStateMessage(messages))
               /\ state_removals' = state_removals + 2
               /\ StepRaises("Exception", "add_model_output")
               /\ UNCHANGED act_vars

\* step(): from the second check of the flags to the call of multi_act:
\* the step counter, save_conversation, the state message removed and the
\* model output committed.
PostModel(acts) ==
    /\ model_output' = AgentOutput(acts)
    /\ IF StoppedOrPaused
       THEN /\ ModelPhaseRaises("Interrupted", "second_check")
            /\ UNCHANGED <<n_steps, act_vars>>
       ELSE /\ n_steps' = n_steps + 1
            /\ \/ /\ messages' = AddModelOutput(RemoveLastStateMessage(messages))
                  /\ state_removals' = state_removals + 1
                  /\ pc' = "act_check"
                  /\ caller' = "step"
                  /\ actions' = acts
                  /\ results' = <<>>
                  /\ i' = 0
                  /\ executed' = <<>>
                  /\ UNCHANGED <<exc, exc_from>>
               \/ \* save_conversation raises
                  /\ ModelPhaseRaises("Exception", "save_conversation")
                  /\ UNCHANGED act_vars
               \/ \* add_model_output raises, after the state message was removed
                  /\ messages' = RemoveLastStateMessage(RemoveLastStateMessage(messages))
                  /\ state_removals' = state_removals + 2
                  /\ StepRaises("Exception", "add_model_output")
                  /\ UNCHANGED act_vars

\* step(): the first call of get_next_action returns a parsed output; an
\* empty one is retried with the clarification message.
ModelReturns ==
    /\ pc = "model_call"
    /\ model_calls' = model_calls + 1
    /\ \E out \in ValidOutputs(action_model) :
         LET acts == Truncate(out)
         IN  /\ parsed' = out
             /\ raw_output' = acts
             /\ IF IsEmptyOutput(acts)
                THEN /\ model_output' = AgentOutput(acts)
                     /\ input_messages' = input_messages \o <<"clarification">>
                     /\ pc' = "model_retry"
                     /\ UNCHANGED <<n_steps, messages, exc, exc_from, act_vars,
                                    state_removals>>
                ELSE /\ PostModel(acts)
                     /\ UNCHANGED input_messages
    /\ UNCHANGED <<neg_vars, prompt_vars, consecutive_failures, last_result, last_model_output, history,
                   flag_vars, setting_vars, action_model, run_vars, result, app_state,
                   step_history, step_failures, step_n_steps, step_messages, step_last_result,
                   step_count, state_adds, hook_vars>>

\* step(): the second call of get_next_action returns a parsed output.
ModelRetryReturns ==
    /\ pc = "model_retry"
    /\ model_calls' = model_calls + 1
    /\ \E out \in ValidOutputs(action_model) :
         /\ parsed' = out
         /\ raw_output' = Truncate(out)
         /\ PostModel(AfterRetry(Truncate(out)))
    /\ UNCHANGED <<neg_vars, prompt_vars, consecutive_failures, last_result, last_model_output, history,
                   flag_vars, setting_vars, action_model, run_vars, result, app_state,
                   input_messages, step_history, step_failures, step_n_steps, step_messages,
                   step_last_result, step_count, state_adds, hook_vars>>

\* A faulty step, which advances the step counter on a failed model call
\* too: it is told apart from ModelRaises by property C34.
ModelRaisesCounts ==
    /\ pc \in {"model_call", "model_retry"}
    /\ model_calls' = model_calls + 1
    /\ n_steps' = n_steps + 1
    /\ \E e \in ModelErrors : ModelPhaseRaises(e, "get_next_action")
    /\ UNCHANGED <<neg_vars, prompt_vars, consecutive_failures, last_result,
                   last_model_output, history, flag_vars, setting_vars, action_model, run_vars,
                   model_output, result, app_state, input_messages, act_vars,
                   parsed, raw_output, step_history, step_failures, step_n_steps, step_messages,
                   step_last_result, step_count, state_adds, hook_vars>>

\* step(): a call of get_next_action raises: `except Exception`.
ModelRaises ==
    /\ pc \in {"model_call", "model_retry"}
    /\ model_calls' = model_calls + 1
    /\ \E e \in ModelErrors : ModelPhaseRaises(e, "get_next_action")
    /\ UNCHANGED <<neg_vars, prompt_vars, state_vars, flag_vars, setting_vars, action_model, run_vars,
                   model_output, result, app_state, input_messages, act_vars,
                   parsed, raw_output, step_history, step_failures, step_n_steps, step_messages,
                   step_last_result, step_count, state_adds, hook_vars>>

\* step(): a call of get_next_action is cancelled: `except CancelledError`
\* removes the state message and raises InterruptedError.
ModelCancelled ==
    /\ pc \in {"model_call", "model_retry"}
    /\ model_calls' = model_calls + 1
    /\ ModelPhaseRaises("Interrupted", "model_cancelled")
    /\ UNCHANGED <<neg_vars, prompt_vars, state_vars, flag_vars, setting_vars, action_model, run_vars,
                   model_output, result, app_state, input_messages, act_vars,
                   parsed, raw_output, step_history, step_failures, step_n_steps, step_messages,
                   step_last_result, step_count, state_adds, hook_vars>>

\* ------------------------------------------------- the handlers of step()
\* A faulty finally block, which never returns early: it is told apart
\* from FinallyReturns by property C32.
FinallyNeverReturns(res) == FALSE

\* step(): `return` in the finally block when the step has no result; an
\* exception in flight is discarded by it.
FinallyReturns(res) == res = <<>>

\* A faulty handler, which counts an interrupt as a failure: it is told
\* apart from HandleInterrupted by property C33.
HandleInterruptedCounts ==
    /\ pc = "step_except"
    /\ exc = "Interrupted"
    /\ last_result' = <<ActionResult(FALSE, PausedMsg)>>
    /\ consecutive_failures' = consecutive_failures + 1
    /\ pc' = "step_done"
    /\ UNCHANGED <<neg_vars, prompt_vars, n_steps, last_model_output, history,
                   flag_vars, setting_vars, mm_vars, run_vars, model_output, result,
                   app_state, exc, exc_from, input_messages, act_vars, ghost_vars, count_vars, hook_vars>>

\* step(): `except InterruptedError`: the pause result, and the step returns.
HandleInterrupted ==
    /\ pc = "step_except"
    /\ exc = "Interrupted"
    /\ last_result' = <<ActionResult(FALSE, PausedMsg)>>
    /\ pc' = "step_done"
    /\ UNCHANGED <<neg_vars, prompt_vars, n_steps, consecutive_failures, last_model_output, history,
                   flag_vars, setting_vars, mm_vars, run_vars, model_output, result,
                   app_state, exc, exc_from, input_messages, act_vars, ghost_vars, count_vars, hook_vars>>

\* step(): `except asyncio.CancelledError`: the Ctrl+C result, then
\* InterruptedError is raised; the finally block returns when the step has
\* no result, and the exception leaves step() otherwise.
HandleCancelled ==
    /\ pc = "step_except"
    /\ exc = "Cancelled"
    /\ last_result' = <<ActionResult(FALSE, CtrlCMsg)>>
    /\ IF FinallyReturns(result)
       THEN /\ pc' = "step_done"
            /\ UNCHANGED <<history, run_outcome>>
       ELSE /\ history' = StepFinally(history, model_output, app_state, result, n_steps)
            /\ RunRaises
    /\ UNCHANGED <<neg_vars, prompt_vars, n_steps, consecutive_failures, last_model_output,
                   flag_vars, setting_vars, mm_vars, step, agent_run_error, close_vars,
                   model_output, result, app_state, exc, exc_from, input_messages,
                   act_vars, ghost_vars, count_vars, hook_vars>>

\* A faulty handler, which keeps the results of the actions executed
\* before the exception: it is told apart from HandleError by property C35.
HandleErrorKeepsResults ==
    /\ pc = "step_except"
    /\ exc \in ModelErrors
    /\ consecutive_failures' = consecutive_failures + 1
    /\ IF exc = "RateLimitError"
       THEN /\ pc' = "retry_sleep"
            /\ UNCHANGED <<result, last_result, history>>
       ELSE /\ result' = Append(results, ActionResult(FALSE, ErrorMsg(exc)))
            /\ last_result' = result'
            /\ history' = StepFinally(history, model_output, app_state, result', n_steps)
            /\ pc' = "step_done"
    /\ UNCHANGED <<neg_vars, prompt_vars, n_steps, last_model_output, flag_vars, setting_vars,
                   mm_vars, run_vars, model_output, app_state, exc, exc_from,
                   input_messages, act_vars, ghost_vars, count_vars, hook_vars>>

\* step(): `except Exception`: _handle_step_error counts the failure and
\* returns one error result, which becomes last_result; the finally block
\* records the history entry.  A rate limit sleeps retry_delay first.
HandleError ==
    /\ pc = "step_except"
    /\ exc \in ModelErrors
    /\ consecutive_failures' = consecutive_failures + 1
    /\ IF exc = "RateLimitError"
       THEN /\ pc' = "retry_sleep"
            /\ UNCHANGED <<result, last_result, history>>
       ELSE /\ result' = <<ActionResult(FALSE, ErrorMsg(exc))>>
            /\ last_result' = result'
            /\ history' = StepFinally(history, model_output, app_state, result', n_steps)
            /\ pc' = "step_done"
    /\ UNCHANGED <<neg_vars, prompt_vars, n_steps, last_model_output, flag_vars, setting_vars,
                   mm_vars, run_vars, model_output, app_state, exc, exc_from,
                   input_messages, act_vars, ghost_vars, count_vars, hook_vars>>

\* A faulty handler, which records the loop index of run() as the step
\* number of the entry: it is told apart from RetrySleep by property C39.
RetrySleepRecordsLoopIndex ==
    /\ pc = "retry_sleep"
    /\ result' = <<ActionResult(FALSE, ErrorMsg(exc))>>
    /\ last_result' = result'
    /\ history' = StepFinally(history, model_output, app_state, result', step)
    /\ pc' = "step_done"
    /\ UNCHANGED <<neg_vars, prompt_vars, n_steps, consecutive_failures, last_model_output, flag_vars,
                   setting_vars, mm_vars, run_vars, model_output, app_state, exc, exc_from,
                   input_messages, act_vars, ghost_vars, count_vars, hook_vars>>

\* _handle_step_error: asyncio.sleep(retry_delay) returns.
RetrySleep ==
    /\ pc = "retry_sleep"
    /\ result' = <<ActionResult(FALSE, ErrorMsg(exc))>>
    /\ last_result' = result'
    /\ history' = StepFinally(history, model_output, app_state, result', n_steps)
    /\ pc' = "step_done"
    /\ UNCHANGED <<neg_vars, prompt_vars, n_steps, consecutive_failures, last_model_output, flag_vars,
                   setting_vars, mm_vars, run_vars, model_output, app_state, exc, exc_from,
                   input_messages, act_vars, ghost_vars, count_vars, hook_vars>>

\* _handle_step_error: asyncio.sleep(retry_delay) is cancelled: the
\* CancelledError leaves the handler before the result is assigned, and the
\* finally block returns.
RetrySleepCancelled ==
    /\ pc = "retry_sleep"
    /\ IF FinallyReturns(result)
       THEN /\ pc' = "step_done"
            /\ UNCHANGED <<history, run_outcome>>
       ELSE /\ history' = StepFinally(history, model_output, app_state, result, n_steps)
            /\ RunRaises
    /\ UNCHANGED <<neg_vars, prompt_vars, n_steps, consecutive_failures, last_result, last_model_output,
                   flag_vars, setting_vars, mm_vars, step, agent_run_error, close_vars,
                   model_output, result, app_state, exc, exc_from, input_messages,
                   act_vars, ghost_vars, count_vars, hook_vars>>

\* ------------------------------------------------------------- multi_act
\* A faulty end of the batch, which goes on after an error: it is told apart
\* from BreaksBatch by property C1.
BreaksBatchIgnoresError(r, idx, n) == r.is_done \/ idx = n - 1

\* multi_act: the batch ends after this result.
BreaksBatch(r, idx, n) == r.is_done \/ HasError(r) \/ idx = n - 1

\* multi_act: an exception leaves multi_act, to step() or to run().
MultiActRaises(e, from) ==
    IF caller = "step"
    THEN /\ StepRaises(e, from)
         /\ UNCHANGED run_outcome
    ELSE /\ RunRaises
         /\ UNCHANGED <<exc, exc_from>>

\* A faulty batch, which checks the flags before its first action only: it
\* is told apart from ActCheck by property C36.
ActCheckFirstOnly ==
    /\ pc = "act_check"
    /\ IF StoppedOrPaused /\ i = 0
       THEN MultiActRaises("Interrupted", "multi_act")
       ELSE /\ pc' = "act_exec"
            /\ UNCHANGED <<exc, exc_from, run_outcome>>
    /\ UNCHANGED <<neg_vars, prompt_vars, state_vars, flag_vars, setting_vars, mm_vars, step,
                   agent_run_error, close_vars, model_output, result, app_state,
                   input_messages, act_vars, ghost_vars, count_vars, hook_vars>>

\* multi_act: the check of the flags before each action.
ActCheck ==
    /\ pc = "act_check"
    /\ IF StoppedOrPaused
       THEN MultiActRaises("Interrupted", "multi_act")
       ELSE /\ pc' = "act_exec"
            /\ UNCHANGED <<exc, exc_from, run_outcome>>
    /\ UNCHANGED <<neg_vars, prompt_vars, state_vars, flag_vars, setting_vars, mm_vars, step,
                   agent_run_error, close_vars, model_output, result, app_state,
                   input_messages, act_vars, ghost_vars, count_vars, hook_vars>>

\* A faulty return of multi_act to step(), which leaves the failure counter:
\* it is told apart from MultiActReturns by property C3.
MultiActReturnsKeepsCounter(res) ==
    IF caller = "step"
    THEN /\ result' = res
         /\ last_result' = res
         /\ last_model_output' = model_output
         /\ UNCHANGED consecutive_failures
         /\ history' = StepFinally(history, model_output, app_state, res, n_steps)
         /\ pc' = "step_done"
    ELSE /\ pc' = "initial_done"
         /\ UNCHANGED <<result, last_result, last_model_output, consecutive_failures,
                        history>>

\* multi_act returns to its caller: step() stores the result and the model
\* output, resets the failure counter and records the history entry.
MultiActReturns(res) ==
    IF caller = "step"
    THEN /\ result' = res
         /\ last_result' = res
         /\ last_model_output' = model_output
         /\ consecutive_failures' = 0
         /\ history' = StepFinally(history, model_output, app_state, res, n_steps)
         /\ pc' = "step_done"
    ELSE /\ pc' = "initial_done"
         /\ UNCHANGED <<result, last_result, last_model_output, consecutive_failures,
                        history>>

\* multi_act: controller.act returns the result of action i.
ActReturns ==
    /\ pc = "act_exec"
    /\ executed' = Append(executed, actions[i + 1])
    /\ \E r \in ExecResults :
         /\ results' = Append(results, r)
         /\ IF BreaksBatch(r, i, Len(actions))
            THEN MultiActReturns(results')
            ELSE /\ pc' = "act_sleep"
                 /\ UNCHANGED <<result, last_result, last_model_output,
                                consecutive_failures, history>>
    /\ UNCHANGED <<neg_vars, prompt_vars, n_steps, flag_vars, setting_vars, mm_vars, run_vars, model_output,
                   app_state, exc, exc_from, input_messages, caller, actions, i,
                   ghost_vars, count_vars, hook_vars>>

\* multi_act: controller.act raises.
ActRaises ==
    /\ pc = "act_exec"
    /\ executed' = Append(executed, actions[i + 1])
    /\ MultiActRaises("Exception", "controller.act")
    /\ UNCHANGED <<neg_vars, prompt_vars, state_vars, flag_vars, setting_vars, mm_vars, step,
                   agent_run_error, close_vars, model_output, result, app_state,
                   input_messages, caller, actions, results, i, ghost_vars, count_vars, hook_vars>>

\* multi_act: controller.act or the delay between two actions is cancelled:
\* an error result when there is none yet, then InterruptedError.
ActCancelled ==
    /\ pc \in {"act_exec", "act_sleep"}
    /\ results' = IF results = <<>>
                  THEN <<ActionResult(FALSE, ActionCancelledMsg)>>
                  ELSE results
    /\ executed' = IF pc = "act_exec" THEN Append(executed, actions[i + 1]) ELSE executed
    /\ MultiActRaises("Interrupted", "multi_act_cancelled")
    /\ UNCHANGED <<neg_vars, prompt_vars, state_vars, flag_vars, setting_vars, mm_vars, step,
                   agent_run_error, close_vars, model_output, result, app_state,
                   input_messages, caller, actions, i, ghost_vars, count_vars, hook_vars>>

\* multi_act: asyncio.sleep(0.5) between two actions returns.
ActSleep ==
    /\ pc = "act_sleep"
    /\ i' = i + 1
    /\ pc' = "act_check"
    /\ UNCHANGED <<neg_vars, prompt_vars, state_vars, flag_vars, setting_vars, mm_vars, run_vars,
                   step_vars, caller, actions, results, executed, ghost_vars, count_vars, hook_vars>>

\* ------------------------------------------------------------------- Spec
Next ==
    \/ Pause \/ Resume \/ Stop
    \/ RunStart \/ LoopHead \/ Poll \/ PollSleep \/ PollCancelled
    \/ InitialDone \/ HookRaises \/ StepStart \/ StepReturns \/ StepEnd \/ RunFinally
    \/ StepAppStateRaises \/ StepMemoryRaises \/ StepBegin
    \/ PlannerReturns \/ PlannerCancelled \/ GetMessagesRaises
    \/ ModelReturns \/ ModelRetryReturns \/ ModelRaises \/ ModelCancelled
    \/ HandleInterrupted \/ HandleCancelled \/ HandleError
    \/ RetrySleep \/ RetrySleepCancelled
    \/ ActCheck \/ ActReturns \/ ActRaises \/ ActCancelled \/ ActSleep

Spec == Init /\ [][Next]_vars

\* The steps of the agent: every action but pause(), resume() and stop(),
\* which are calls of the environment.
AgentNext ==
    \/ RunStart \/ LoopHead \/ Poll \/ PollSleep \/ PollCancelled
    \/ InitialDone \/ HookRaises \/ StepStart \/ StepReturns \/ StepEnd \/ RunFinally
    \/ StepAppStateRaises \/ StepMemoryRaises \/ StepBegin
    \/ PlannerReturns \/ PlannerCancelled \/ GetMessagesRaises
    \/ ModelReturns \/ ModelRetryReturns \/ ModelRaises \/ ModelCancelled
    \/ HandleInterrupted \/ HandleCancelled \/ HandleError
    \/ RetrySleep \/ RetrySleepCancelled
    \/ ActCheck \/ ActReturns \/ ActRaises \/ ActCancelled \/ ActSleep

\* The agent under a fair event loop: every await of run(), step() and
\* multi_act() (a sleep, a hook, a model, planner or executor call) ends,
\* by returning or raising, and the coroutine is resumed.
SpecLive == Init /\ [][Next]_vars /\ WF_vars(AgentNext)

\* ------------------------------------------- _set_tool_calling_method
\* The agents constructed over one model connection.
MaxConstructions == 2

\* _set_tool_calling_method returns `method` to Agent.__init__, which goes
\* on to _verify_llm_connection.
Returns(method) ==
    /\ tool_calling_method' = method
    /\ neg_pc' = "verify"

\* The method is cached on the llm (_verified_tool_calling_method).
Caches(method) == llm_method' = method

\* _detect_best_tool_calling_method: the four probes are started at once.
StartsDetection ==
    /\ probe' = [m \in Methods |-> "running"]
    /\ neg_pc' = "detect_parallel"

\* A faulty resolution, which does not look at the cache of the connection:
\* it is told apart from NegStart by property C24.
NegStartIgnoresCache ==
    /\ neg_pc = "neg_start"
    /\ IF tool_calling_setting # "auto"
       THEN IF llm_verified = "True"
            THEN /\ Caches(tool_calling_setting)
                 /\ Returns(tool_calling_setting)
                 /\ UNCHANGED probe
            ELSE /\ neg_pc' = "explicit_probe"
                 /\ UNCHANGED <<llm_method, tool_calling_method, probe>>
       ELSE LET known == KnownToolCallingMethod(chat_model_library, model_name)
            IN  IF known # None
                THEN IF llm_verified = "True"
                     THEN /\ Caches(known)
                          /\ Returns(known)
                          /\ UNCHANGED probe
                     ELSE /\ neg_pc' = "known_probe"
                          /\ UNCHANGED <<llm_method, tool_calling_method, probe>>
                ELSE /\ StartsDetection
                     /\ UNCHANGED <<llm_method, tool_calling_method>>
    /\ UNCHANGED <<agent_vars, prompt_vars, chat_model_library, model_name, llm_verified,
                   tool_calling_setting, neg_error, seq_index, completed,
                   probes_made, constructions>>

\* _set_tool_calling_method, up to its first probe: an explicit method, the
\* cached method, the static table, full detection.
NegStart ==
    /\ neg_pc = "neg_start"
    /\ IF tool_calling_setting # "auto"
       THEN IF llm_verified = "True"
            THEN /\ Caches(tool_calling_setting)
                 /\ Returns(tool_calling_setting)
                 /\ UNCHANGED probe
            ELSE /\ neg_pc' = "explicit_probe"
                 /\ UNCHANGED <<llm_method, tool_calling_method, probe>>
       ELSE IF llm_method # None
       THEN /\ Returns(llm_method)
            /\ UNCHANGED <<llm_method, probe>>
       ELSE LET known == KnownToolCallingMethod(chat_model_library, model_name)
            IN  IF known # None
                THEN IF llm_verified = "True"
                     THEN /\ Caches(known)
                          /\ Returns(known)
                          /\ UNCHANGED probe
                     ELSE /\ neg_pc' = "known_probe"
                          /\ UNCHANGED <<llm_method, tool_calling_method, probe>>
                ELSE /\ StartsDetection
                     /\ UNCHANGED <<llm_method, tool_calling_method>>
    /\ UNCHANGED <<agent_vars, prompt_vars, chat_model_library, model_name, llm_verified,
                   tool_calling_setting, neg_error, seq_index, completed,
                   probes_made, constructions>>

\* _set_tool_calling_method: the probe of the explicitly requested method
\* returns; a failure raises ConnectionError for raw and RuntimeError for
\* the other methods.
ExplicitProbe ==
    /\ neg_pc = "explicit_probe"
    /\ probes_made' = probes_made + 1
    /\ \E ok \in BOOLEAN :
         IF ok
         THEN /\ Caches(tool_calling_setting)
              /\ Returns(tool_calling_setting)
              /\ UNCHANGED neg_error
         ELSE /\ neg_error' = IF tool_calling_setting = "raw"
                              THEN "ConnectionError" ELSE "RuntimeError"
              /\ neg_pc' = "neg_failed"
              /\ UNCHANGED <<llm_method, tool_calling_method>>
    /\ UNCHANGED <<agent_vars, prompt_vars, chat_model_library, model_name, llm_verified,
                   tool_calling_setting, probe, seq_index, completed, constructions>>

\* A faulty fast path, which gives up when the probe of the table's method
\* fails: it is told apart from KnownProbe by property C25.
KnownProbeGivesUp ==
    /\ neg_pc = "known_probe"
    /\ probes_made' = probes_made + 1
    /\ \E ok \in BOOLEAN :
         LET known == KnownToolCallingMethod(chat_model_library, model_name)
         IN  IF ok
             THEN /\ llm_verified' = "True"
                  /\ Caches(known)
                  /\ Returns(known)
                  /\ UNCHANGED <<probe, neg_error>>
             ELSE /\ neg_error' = "ConnectionError"
                  /\ neg_pc' = "neg_failed"
                  /\ UNCHANGED <<llm_verified, llm_method, tool_calling_method, probe>>
    /\ UNCHANGED <<agent_vars, prompt_vars, chat_model_library, model_name,
                   tool_calling_setting, seq_index, completed, constructions>>

\* _set_tool_calling_method: the probe of the table's method returns; a
\* failure falls back to full detection.
KnownProbe ==
    /\ neg_pc = "known_probe"
    /\ probes_made' = probes_made + 1
    /\ \E ok \in BOOLEAN :
         LET known == KnownToolCallingMethod(chat_model_library, model_name)
         IN  IF ok
             THEN /\ llm_verified' = "True"
                  /\ Caches(known)
                  /\ Returns(known)
                  /\ UNCHANGED probe
             ELSE /\ StartsDetection
                  /\ UNCHANGED <<llm_verified, llm_method, tool_calling_method>>
    /\ UNCHANGED <<agent_vars, prompt_vars, chat_model_library, model_name,
                   tool_calling_setting, neg_error, seq_index, completed, constructions>>

\* _test_tool_calling_method_async: the probe of method m completes in its
\* worker thread, with success or failure (a probe never raises).
ProbeCompletes(m) ==
    /\ neg_pc = "detect_parallel"
    /\ probe[m] = "running"
    /\ \E ok \in BOOLEAN : probe' = [probe EXCEPT ![m] = IF ok THEN "ok" ELSE "failed"]
    /\ completed' = Append(completed, m)
    /\ probes_made' = probes_made + 1
    /\ UNCHANGED <<agent_vars, prompt_vars, chat_model_library, model_name, llm_method,
                   llm_verified, tool_calling_setting, tool_calling_method, neg_pc,
                   neg_error, seq_index, constructions>>

\* A faulty choice, which takes the first successful probe in the order of
\* completion: it is told apart from PickMethod by property C7.
PickFirstCompleted(res) ==
    IF \A k \in 1..Len(completed) : res[completed[k]] # "ok" THEN None
    ELSE completed[CHOOSE k \in 1..Len(completed) :
                     /\ res[completed[k]] = "ok"
                     /\ \A j \in 1..(k - 1) : res[completed[j]] # "ok"]

\* _detect_best_tool_calling_method: the first method, in the order of
\* methods_to_try, whose result is a success; None when there is none.
PickMethod(res) ==
    IF \A k \in 1..Len(MethodsToTry) : res[MethodsToTry[k]] # "ok" THEN None
    ELSE MethodsToTry[CHOOSE k \in 1..Len(MethodsToTry) :
                        /\ res[MethodsToTry[k]] = "ok"
                        /\ \A j \in 1..(k - 1) : res[MethodsToTry[j]] # "ok"]

\* A faulty collection, which falls back to raw when no probe succeeded: it
\* is told apart from DetectCollect by property C22.
DetectCollectDefaultsToRaw ==
    /\ neg_pc = "detect_parallel"
    /\ \A m \in Methods : probe[m] \in {"ok", "failed"}
    /\ LET method == IF PickMethod(probe) # None THEN PickMethod(probe) ELSE "raw"
       IN  /\ llm_verified' = "True"
           /\ Caches(method)
           /\ Returns(method)
           /\ UNCHANGED neg_error
    /\ UNCHANGED <<agent_vars, prompt_vars, chat_model_library, model_name,
                   tool_calling_setting, probe, seq_index, completed, probes_made,
                   constructions>>

\* _detect_best_tool_calling_method: gather has returned every result; the
\* results are processed in the order of preference.
DetectCollect ==
    /\ neg_pc = "detect_parallel"
    /\ \A m \in Methods : probe[m] \in {"ok", "failed"}
    /\ LET method == PickMethod(probe)
       IN  IF method # None
           THEN /\ llm_verified' = "True"
                /\ Caches(method)
                /\ Returns(method)
                /\ UNCHANGED neg_error
           ELSE /\ neg_error' = "ConnectionError"
                /\ neg_pc' = "neg_failed"
                /\ UNCHANGED <<llm_verified, llm_method, tool_calling_method>>
    /\ UNCHANGED <<agent_vars, prompt_vars, chat_model_library, model_name,
                   tool_calling_setting, probe, seq_index, completed, probes_made,
                   constructions>>

\* _detect_best_tool_calling_method: the parallel test raises (the thread
\* or the event loop fails): the methods are tested one after the other.
DetectParallelRaises ==
    /\ neg_pc = "detect_parallel"
    /\ neg_pc' = "detect_sequential"
    /\ seq_index' = 1
    /\ probe' = NoProbes
    /\ completed' = <<>>
    /\ UNCHANGED <<agent_vars, prompt_vars, chat_model_library, model_name, llm_method,
                   llm_verified, tool_calling_setting, tool_calling_method,
                   neg_error, probes_made, constructions>>

\* _detect_best_tool_calling_method: the sequential fallback probes the
\* next method; the first success is returned.
SequentialProbe ==
    /\ neg_pc = "detect_sequential"
    /\ probes_made' = probes_made + 1
    /\ \E ok \in BOOLEAN :
         IF ok
         THEN /\ llm_verified' = "True"
              /\ Caches(MethodsToTry[seq_index])
              /\ Returns(MethodsToTry[seq_index])
              /\ UNCHANGED <<seq_index, neg_error>>
         ELSE IF seq_index < Len(MethodsToTry)
         THEN /\ seq_index' = seq_index + 1
              /\ UNCHANGED <<llm_verified, llm_method, tool_calling_method,
                             neg_pc, neg_error>>
         ELSE /\ neg_error' = "ConnectionError"
              /\ neg_pc' = "neg_failed"
              /\ UNCHANGED <<seq_index, llm_verified, llm_method, tool_calling_method>>
    /\ UNCHANGED <<agent_vars, prompt_vars, chat_model_library, model_name,
                   tool_calling_setting, probe, completed, constructions>>

\* _verify_llm_connection: skipped on a verified connection; otherwise the
\* sanity question decides _verified_api_keys.
VerifyConnection ==
    /\ neg_pc = "verify"
    /\ IF llm_verified = "True"
       THEN UNCHANGED llm_verified
       ELSE \E ok \in BOOLEAN : llm_verified' = IF ok THEN "True" ELSE "False"
    /\ neg_pc' = "neg_done"
    /\ UNCHANGED <<agent_vars, prompt_vars, chat_model_library, model_name, llm_method,
                   tool_calling_setting, tool_calling_method, neg_error, probe,
                   seq_index, completed, probes_made, constructions>>

\* Another Agent is constructed over the same model connection.
NewAgent ==
    /\ neg_pc \in {"neg_done", "neg_failed"}
    /\ constructions < MaxConstructions
    /\ constructions' = constructions + 1
    /\ tool_calling_setting' \in Settings
    /\ tool_calling_method' = None
    /\ neg_pc' = "neg_start"
    /\ neg_error' = None
    /\ probe' = NoProbes
    /\ seq_index' = 0
    /\ completed' = <<>>
    /\ probes_made' = 0
    /\ UNCHANGED <<agent_vars, prompt_vars, chat_model_library, model_name, llm_method, llm_verified>>

\* A first Agent is constructed over a model connection that has no cached
\* method; its keys are verified already or not.
InitNeg ==
    /\ AgentInit
    /\ consecutive_failures = 0
    /\ last_result = <<>>
    /\ planner = "off"
    /\ initial_actions = <<>>
    /\ \E c \in Connections : chat_model_library = c[1] /\ model_name = c[2]
    /\ llm_method = None
    /\ llm_verified \in {None, "True"}
    /\ tool_calling_setting \in Settings
    /\ tool_calling_method = None
    /\ neg_pc = "neg_start"
    /\ neg_error = None
    /\ probe = NoProbes
    /\ seq_index = 0
    /\ completed = <<>>
    /\ probes_made = 0
    /\ constructions = 1
    /\ NoPrompt

NextNeg ==
    \/ NegStart \/ ExplicitProbe \/ KnownProbe
    \/ \E m \in Methods : ProbeCompletes(m)
    \/ DetectCollect \/ DetectParallelRaises \/ SequentialProbe
    \/ VerifyConnection \/ NewAgent

SpecNeg == InitNeg /\ [][NextNeg]_vars

\* --------------------------------------------------- AgentMessagePrompt
\* The most interactive elements of a snapshot.
MaxElements == 2

\* An optional integer (int | None): <<>> is None, <<n>> is n.
PixelValues == {<<>>, <<-1>>, <<0>>, <<1>>, <<120>>}

\* `p or 0`.
OrZero(p) == IF p = <<>> THEN 0 ELSE p[1]

\* A faulty test, which takes every pixel count that is present for
\* content: it is told apart from HasContent by property C31.
HasContentIfPresent(p) == p # <<>>

\* has_content_above, has_content_below: `(p or 0) > 0`.
HasContent(p) == OrZero(p) > 0

\* The lines of the description: a line is a pair of its kind and the
\* number printed in it (0 when it prints none).
Header == <<"Interactive elements from top layer of the current page inside the viewport:", 0>>
AboveMarker(n) == <<"... N pixels above - scroll or extract content to see more ...", n>>
BelowMarker(n) == <<"... N pixels below - scroll or extract content to see more ...", n>>
StartOfPage == <<"[Start of page]", 0>>
EndOfPage == <<"[End of page]", 0>>
EmptyPage == <<"empty page", 0>>

\* element_tree.interactive_elements_to_string: one line per interactive
\* element, the empty string when there is none.
ElementsToString(n) == [k \in 1..n |-> <<"element", k>>]

\* _get_app_state_description: the element summary (elements_text at the
\* return statement).
ElementsText(above, below, text) ==
    IF text # <<>>
    THEN (IF HasContent(above) THEN <<AboveMarker(above[1])>> ELSE <<StartOfPage>>)
         \o text
         \o (IF HasContent(below) THEN <<BelowMarker(below[1])>> ELSE <<EndOfPage>>)
    ELSE <<EmptyPage>>

\* _get_app_state_description: the string returned.
AppStateDescription(above, below, text) == <<Header>> \o ElementsText(above, below, text)

\* AgentMessagePrompt._get_app_state_description is called.
GetAppStateDescription ==
    /\ prompt_pc = "idle"
    /\ description' = AppStateDescription(pixels_above, pixels_below, elements)
    /\ prompt_pc' = "described"
    /\ UNCHANGED <<agent_vars, neg_vars, pixels_above, pixels_below, elements>>

\* AgentMessagePrompt.__init__: a prompt is made for the next snapshot.
NewPrompt ==
    /\ prompt_pc = "described"
    /\ pixels_above' \in PixelValues
    /\ pixels_below' \in PixelValues
    /\ \E n \in 0..MaxElements : elements' = ElementsToString(n)
    /\ description' = <<>>
    /\ prompt_pc' = "idle"
    /\ UNCHANGED <<agent_vars, neg_vars>>

\* A prompt is made for a snapshot, in an agent that is not running.
InitPrompt ==
    /\ AgentInit
    /\ consecutive_failures = 0
    /\ last_result = <<>>
    /\ planner = "off"
    /\ initial_actions = <<>>
    /\ NegotiationDone
    /\ pixels_above \in PixelValues
    /\ pixels_below \in PixelValues
    /\ \E n \in 0..MaxElements : elements = ElementsToString(n)
    /\ description = <<>>
    /\ prompt_pc = "idle"

NextPrompt == GetAppStateDescription \/ NewPrompt

SpecPrompt == InitPrompt /\ [][NextPrompt]_vars

\* ============================================================ properties
\* The positions of step() itself, and the control being inside step() or a
\* multi_act called by it (up to the return of step()).
StepPositions == {"step_begin", "planner_call", "model_call", "model_retry",
                  "step_except", "retry_sleep", "step_done"}

InStep ==
    \/ pc \in StepPositions
    \/ pc \in {"act_check", "act_exec", "act_sleep"} /\ caller = "step"

\* step() has returned to run() (its return value is being handed over).
StepReturned == pc = "step_done"

\* multi_act has returned its result list to its caller.
MultiActReturned ==
    \/ pc = "initial_done"
    \/ pc = "step_done" /\ caller = "step" /\ exc_from = None

\* A result list without an error.
ErrorFree(res) == \A k \in 1..Len(res) : ~HasError(res[k])

\* An action list the step takes for empty: no action, or all-default ones.
AllDefault(acts) == \A k \in 1..Len(acts) : acts[k] = "empty"

\* The positions of step() from which an exception of the model-call phase
\* (the inner try block) is raised.
ModelPhase == {"get_next_action", "model_cancelled", "second_check",
               "save_conversation", "add_model_output"}

\* ---------------------------------------------------------------- C1
\* C1: multi_act executes the actions of a batch in order and stops after the
\* first action whose result has is_done or an error, or after the last
\* action: the executed actions are a prefix of the batch, no result before
\* the last one is done or an error, the last one is done, an error, or the
\* result of the last action, and the returned list has one result per
\* executed action.
C1_PartialBatch ==
    /\ caller # None => IsPrefix(executed, actions)
    /\ MultiActReturned =>
         /\ Len(results) >= 1
         /\ Len(results) = Len(executed)
         /\ \A k \in 1..(Len(results) - 1) :
              ~results[k].is_done /\ ~HasError(results[k])
         /\ \/ results[Len(results)].is_done
            \/ HasError(results[Len(results)])
            \/ Len(results) = Len(actions)

\* C1, its case: the batch [tap, swipe, scroll] whose second action fails
\* returns two results, and scroll is not executed.
C1_Witness ==
    /\ pc = "initial_done"
    /\ actions = <<"tap", "swipe", "scroll">>
    /\ executed = <<"tap", "swipe">>
    /\ Len(results) = 2
    /\ HasError(results[2])

\* ---------------------------------------------------------------- C2
\* C2: the transcript holds at most one ephemeral state message at any
\* time, and none once a step has returned, however the step ends (normally,
\* with a model or parse error, with an interrupt, with a cancellation).
C2_AtMostOneStateMessage ==
    /\ Count(messages, "state") <= 1
    /\ ~InStep \/ StepReturned => Count(messages, "state") = 0

\* ---------------------------------------------------------------- C3
\* C3: after a step whose result list is non-empty and holds no error, the
\* consecutive-failure counter is 0, whatever it was before the step.
C3_ResetOnSuccess ==
    StepReturned /\ result # <<>> /\ ErrorFree(result) => consecutive_failures = 0

\* C3, its case: a step that began with a counted failure has returned an
\* error-free result.
C3_Witness ==
    /\ StepReturned
    /\ result # <<>>
    /\ ErrorFree(result)
    /\ step_failures > 0
    /\ consecutive_failures = 0

\* ---------------------------------------------------------------- C4
\* C4: every step that does not end with a non-empty, error-free result
\* list increments the consecutive-failure counter by exactly 1.
C4_IncrementOnFailure ==
    StepReturned /\ ~(result # <<>> /\ ErrorFree(result))
        => consecutive_failures = step_failures + 1

\* ---------------------------------------------------------------- C5
\* run() has left its loop and returns the history (no hook has ended the
\* run with a KeyboardInterrupt).
LoopReturned ==
    /\ pc \in {"run_finally", "run_done"}
    /\ run_outcome = "returned"
    /\ agent_run_error # "KeyboardInterrupt"

\* C5 (as stated): a run that leaves its loop with the failure counter at
\* max_failures has halted with the reason that names the failures.
C5_HaltNamesFailures ==
    LoopReturned /\ consecutive_failures >= MaxFailures
        => agent_run_error = "Stopped due to consecutive failures"

\* C5 (amended): no step starts once the failure counter has reached
\* max_failures, so no model call and no action follows the last failing
\* step; the run that leaves its loop with the counter at max_failures names
\* the failures as its reason, except when the last failing step was the
\* last of the max_steps iterations: then the reason is the exhausted steps.
C5_HaltOnFailures ==
    /\ InStep => step_failures < MaxFailures
    /\ LoopReturned /\ consecutive_failures >= MaxFailures
       => agent_run_error = IF step >= MaxSteps
                            THEN "Failed to complete task in maximum steps"
                            ELSE "Stopped due to consecutive failures"

\* C5, its case: the run has halted on the failures, before its steps were
\* exhausted, after a failing step of this run.
C5_Witness ==
    /\ pc = "run_done"
    /\ run_outcome = "returned"
    /\ consecutive_failures >= MaxFailures
    /\ step_count >= 1
    /\ step < MaxSteps
    /\ agent_run_error = "Stopped due to consecutive failures"

\* ---------------------------------------------------------------- C6
\* C6: a call of step() appends no entry or one entry to the history and
\* leaves the entries it found: the history before the step is a prefix of
\* the history during and after it, which is longer by one entry at most.
C6_HistoryAppendOnly ==
    InStep => /\ IsPrefix(step_history, history)
              /\ Len(history) <= Len(step_history) + 1

\* C6, its case: a step that found one entry has returned with two.
C6_Witness ==
    /\ StepReturned
    /\ Len(step_history) = 1
    /\ Len(history) = 2

\* ---------------------------------------------------------------- C7
\* C7: full detection returns and caches the first method, in the order
\* function_calling, tools, json_mode, raw, whose probe succeeded, whatever
\* the probes that succeed and the order in which the four concurrent probes
\* complete; it fails when no probe succeeded.
C7_PreferenceOrder ==
    (\A m \in Methods : probe[m] \in {"ok", "failed"}) =>
        /\ neg_pc \in {"verify", "neg_done"} =>
             /\ llm_method = tool_calling_method
             /\ \E k \in 1..Len(MethodsToTry) :
                  /\ MethodsToTry[k] = tool_calling_method
                  /\ probe[MethodsToTry[k]] = "ok"
                  /\ \A j \in 1..(k - 1) : probe[MethodsToTry[j]] = "failed"
        /\ neg_pc = "neg_failed" =>
             /\ \A m \in Methods : probe[m] = "failed"
             /\ neg_error = "ConnectionError"

\* C7, its case: the probe of raw succeeded first, the probe of
\* function_calling succeeded last, and function_calling is returned.
C7_Witness ==
    /\ neg_pc = "verify"
    /\ Len(completed) = 4
    /\ completed[1] = "raw"
    /\ completed[4] = "function_calling"
    /\ probe["raw"] = "ok"
    /\ probe["function_calling"] = "ok"
    /\ tool_calling_method = "function_calling"

\* ---------------------------------------------------------------- C8
\* C8: when the model call, the parsing of its output, or another statement
\* of the model-call phase raises (a cancellation included), the exception
\* leaves the phase with the staged state message removed, so that the
\* transcript holds no more state messages than when the step began, and
\* without the model output committed.
C8_ModelPhaseCleansUp ==
    pc = "step_except" /\ exc_from \in ModelPhase =>
        /\ Count(messages, "state") <= Count(step_messages, "state")
        /\ Count(messages, "output") = Count(step_messages, "output")

\* C8, its case: the model call was cancelled after the state message was
\* staged.
C8_Witness ==
    /\ pc = "step_except"
    /\ exc_from = "model_cancelled"
    /\ model_calls = 1
    /\ Count(messages, "state") = 0

\* ---------------------------------------------------------------- C9
\* C9: a parse failure or a rate-limit failure raised inside a step does not
\* leave step(): the step returns with a result list of one ActionResult
\* holding the error text, which is last_result, and with the failure counter
\* incremented.
C9_ErrorsAbsorbed ==
    exc \in {"ParseError", "RateLimitError"} =>
        /\ run_outcome # "raised"
        /\ StepReturned =>
             /\ result = <<ActionResult(FALSE, ErrorMsg(exc))>>
             /\ last_result = result
             /\ consecutive_failures = step_failures + 1

\* ---------------------------------------------------------------- C10 
\* C10: a step calls the model twice at most; an empty (or all-default)
\* first output is followed by one more call, whose input is the input of
\* the first with the clarification message added; when the second output
\* is empty too, the action list is the one synthesized done action; the
\* list handed to multi_act is never empty.
C10_EmptyOutputRetry ==
    /\ model_calls <= 2
    /\ pc = "model_retry" =>
         /\ model_calls = 1
         /\ AllDefault(raw_output)
         /\ input_messages = Append(GetMessages(messages), "clarification")
    /\ InStep /\ model_calls = 1 /\ AllDefault(raw_output) /\ exc_from = None
         => pc = "model_retry"
    /\ model_calls = 2 /\ exc_from \notin {"get_next_action", "model_cancelled"} =>
         model_output.action = IF AllDefault(raw_output) THEN <<NoopDone>>
                               ELSE raw_output
    /\ caller = "step" => ~AllDefault(actions)

\* C10, its case: both outputs were empty and multi_act is entered with the
\* synthesized action.
C10_Witness ==
    /\ pc = "act_check"
    /\ caller = "step"
    /\ model_calls = 2
    /\ AllDefault(raw_output)
    /\ actions = <<NoopDone>>

\* ---------------------------------------------------------------- C11
\* get_next_action has returned an output in this step (the last call made
\* did not raise).
ModelReturned ==
    /\ InStep
    /\ model_calls >= 1
    /\ exc_from \notin {"get_next_action", "model_cancelled"}

\* C11: the action list get_next_action returns is the parsed list when it
\* has max_actions_per_step actions at most, and its first
\* max_actions_per_step actions, in order, when it has more; the length of
\* the list never makes the call raise.
C11_Truncation ==
    ModelReturned =>
        /\ Len(parsed) <= MaxActionsPerStep => raw_output = parsed
        /\ Len(parsed) > MaxActionsPerStep =>
             /\ Len(raw_output) = MaxActionsPerStep
             /\ \A k \in 1..MaxActionsPerStep : raw_output[k] = parsed[k]

\* C11, its case: a parsed list of MaxLen actions, longer than
\* max_actions_per_step, is handed to multi_act cut to max_actions_per_step.
C11_Witness ==
    /\ pc = "act_check"
    /\ caller = "step"
    /\ Len(parsed) = MaxLen
    /\ Len(parsed) > MaxActionsPerStep
    /\ Len(actions) = MaxActionsPerStep

\* ---------------------------------------------------------------- C12
\* C12: when the model is called in the last step (step_info.is_last_step),
\* the action model is restricted to done and the termination directive has
\* been appended to the transcript in this step, and is part of the input of
\* the call; when it is called in another step, the action model is the
\* full one and the step has appended no directive.
C12_LastStep ==
    pc \in {"model_call", "model_retry"} =>
        IF step >= MaxSteps - 1
        THEN /\ action_model = "done_only"
             /\ Count(messages, "directive") = Count(step_messages, "directive") + 1
             /\ messages[Len(messages)] = "directive"
             /\ Count(input_messages, "directive") = Count(messages, "directive")
        ELSE /\ action_model = "all"
             /\ Count(messages, "directive") = Count(step_messages, "directive")
             /\ Count(input_messages, "directive") = 0

\* C12, its case: the model is called in the last of the max_steps steps.
C12_Witness ==
    /\ pc = "model_call"
    /\ step = MaxSteps - 1
    /\ action_model = "done_only"
    /\ Count(input_messages, "directive") = 1

\* ---------------------------------------------------------------- C13
\* The step was interrupted by a check of the flags that found the agent
\* paused, and has returned.
PausedStepReturned ==
    /\ StepReturned
    /\ exc = "Interrupted"
    /\ exc_from \in {"first_check", "second_check", "multi_act"}
    /\ paused

C14_FirstCheck ==
    /\ [][pc = "step_begin" /\ (paused \/ stopped) =>
            /\ pc' = "step_except"
            /\ messages' = messages
            /\ model_calls' = model_calls
            /\ executed' = executed
            /\ history' = history]_vars
    /\ [](InStep /\ exc_from = "first_check" =>
            /\ messages = step_messages
            /\ model_calls = 0
            /\ executed = <<>>
            /\ history = step_history)

\* C14, its case: a step that found the agent stopped at its first check has
\* returned.
C14_Witness ==
    /\ StepReturned
    /\ exc_from = "first_check"
    /\ stopped
    /\ messages = step_messages
    /\ history = step_history

\* ---------------------------------------------------------------- C15
\* A call of the model that ends while paused or stopped is set: the first
\* call is retried on an empty output, and otherwise the step goes to its
\* handlers with the state message removed and nothing else done.
ModelCallEndsInterrupted ==
    pc \in {"model_call", "model_retry"} /\ (paused \/ stopped) /\ pc' # pc =>
        \/ pc = "model_call" /\ pc' = "model_retry"
        \/ /\ pc' = "step_except"
           /\ n_steps' = n_steps
           /\ Count(messages', "state") = Count(messages, "state") - 1
           /\ Count(messages', "output") = Count(messages, "output")
           /\ executed' = <<>>

\* C15: when paused or stopped is set as the model call returns, the step
\* goes to its handlers with the state message removed, the model output not
\* committed, the step counter not advanced and no action executed (an empty
\* first output is retried before the flags are looked at), and no action is
\* executed before the step returns.
C15_SecondCheck ==
    /\ [][ModelCallEndsInterrupted]_vars
    /\ [](InStep /\ exc_from = "second_check" =>
            /\ executed = <<>>
            /\ Count(messages, "state") <= Count(step_messages, "state")
            /\ Count(messages, "output") = Count(step_messages, "output"))

\* C15, its case: the agent was paused while the model call was in flight,
\* the call returned actions, and the step has returned.
C15_Witness ==
    /\ StepReturned
    /\ exc_from = "second_check"
    /\ paused
    /\ model_calls = 1
    /\ raw_output # <<>>
    /\ executed = <<>>

\* ---------------------------------------------------------------- C16
\* C16: when stop() was called while a step of run() was in progress, run()
\* starts no further step after that step: it does not get past the head of
\* its loop again, so that no model call and no action follows, and the step
\* in progress at the call is the last step of the run.
C16_StopEndsRun ==
    stopped_in_step > 0 =>
        /\ stopped
        /\ step_count = stopped_in_step
        /\ InStep \/ pc \in {"hook_end", "loop_head", "run_finally", "run_done"}

\* C16, its case: stop() was called during the model call of the first step,
\* and run() has returned with its steps not exhausted.
C16_Witness ==
    /\ pc = "run_done"
    /\ run_outcome = "returned"
    /\ stopped_in_step = 1
    /\ step < MaxSteps
    /\ consecutive_failures < MaxFailures
    /\ agent_run_error = "Agent stopped programmatically"

\* ---------------------------------------------------------------- C17
\* C17: once the history ends with an entry whose last result has is_done,
\* run() starts no further step: the control is in the completing step, in
\* the hook after it, or at the end of run(); the run that returns does not
\* report the exceeded max steps, also when the completing step was the last
\* of max_steps.
C17_DoneEndsRun ==
    IsDone(history) =>
        /\ pc \in {"step_done", "hook_end", "run_finally", "run_done"}
        /\ pc \in {"run_finally", "run_done"} /\ run_outcome = "returned" =>
             agent_run_error # "Failed to complete task in maximum steps"

\* C17, its case: the last of the max_steps steps completed the task and
\* run() has returned.
C17_Witness ==
    /\ pc = "run_done"
    /\ run_outcome = "returned"
    /\ IsDone(history)
    /\ step = MaxSteps - 1
    /\ step_count = MaxSteps

\* ---------------------------------------------------------------- C18
\* C18: run(max_steps) calls step() max_steps times at most; when every
\* iteration has run without the history reporting completion, run() reports
\* 'Failed to complete task in maximum steps', and it reports this condition
\* in no other case.
C18_MaxSteps ==
    /\ step_count <= MaxSteps
    /\ pc \in {"run_finally", "run_done"} /\ run_outcome = "returned" /\ step = MaxSteps =>
         /\ step_count = MaxSteps
         /\ ~IsDone(history)
         /\ agent_run_error = "Failed to complete task in maximum steps"
    /\ agent_run_error = "Failed to complete task in maximum steps" =>
         /\ pc \in {"run_finally", "run_done"}
         /\ step = MaxSteps
         /\ step_count = MaxSteps
         /\ ~IsDone(history)

\* C18, its case: max_steps steps have run, none failing and none completing
\* the task, without a stop, and run() has returned.
C18_Witness ==
    /\ pc = "run_done"
    /\ step_count = MaxSteps
    /\ Len(history) = MaxSteps
    /\ consecutive_failures = 0
    /\ ~stopped
    /\ agent_run_error = "Failed to complete task in maximum steps"

\* ---------------------------------------------------------------- C19
\* The cleanup of run() leaves what run() returns or raises as it is.
CloseKeepsOutcome ==
    pc = "run_finally" =>
        /\ closed' = closed + 1
        /\ run_outcome' = run_outcome
        /\ agent_run_error' = agent_run_error

\* C19: every execution of run() calls close() exactly once, before run()
\* returns or raises: close() has been called once when run() is over and
\* not before, every exit of run() (completion, max steps, failure halt,
\* stop, KeyboardInterrupt, another exception, a cancellation) goes through
\* the cleanup, and an exception of app.close() does not change whether
\* run() returns or raises.
C19_CloseOnce ==
    /\ [](closed = IF pc = "run_done" THEN 1 ELSE 0)
    /\ [](run_outcome # "running" <=> pc \in {"run_finally", "run_done"})
    /\ [][CloseKeepsOutcome]_vars

\* C19, its case: run() has returned the history after a KeyboardInterrupt,
\* and app.close() raised in the cleanup.
C19_Witness ==
    /\ pc = "run_done"
    /\ closed = 1
    /\ close_error
    /\ run_outcome = "returned"
    /\ agent_run_error = "KeyboardInterrupt"

\* ---------------------------------------------------------------- C20
\* The state messages and the committed outputs the step has added to the
\* transcript it found.
StagedInStep == Count(messages, "state") - Count(step_messages, "state")

CommittedInStep == Count(messages, "output") - Count(step_messages, "output")

\* step() is in multi_act.
ExecutingActions == caller = "step" /\ pc \in {"act_check", "act_exec", "act_sleep"}

\* C20: the events of a step that executes actions occur in the order state
\* message staged, model called, state message removed, model output
\* committed, actions executed, one history entry recorded: while the model
\* is called the state message is staged and nothing is committed or
\* executed; while actions are executed, and whenever an action of the step
\* has been executed, the model was called, the state message is removed and
\* the output is committed; the history entry is recorded last, and a step
\* that returns the results of its actions has recorded exactly one.
C20_StepOrder ==
    /\ pc \in {"planner_call", "model_call", "model_retry"} =>
         /\ StagedInStep = 1
         /\ CommittedInStep = 0
         /\ executed = <<>>
         /\ history = step_history
    /\ ExecutingActions \/ (InStep /\ caller = "step" /\ executed # <<>>) =>
         /\ model_calls >= 1
         /\ StagedInStep = 0
         /\ CommittedInStep = 1
    /\ ExecutingActions => history = step_history
    /\ InStep /\ history # step_history => StepReturned
    /\ StepReturned /\ caller = "step" /\ exc_from = None =>
         /\ Len(history) = Len(step_history) + 1
         /\ history[Len(history)].result = results
         /\ Len(results) = Len(executed)

\* C20, its case: a step has executed two actions and has returned with its
\* history entry recorded.
C20_Witness ==
    /\ StepReturned
    /\ caller = "step"
    /\ exc_from = None
    /\ Len(executed) = 2
    /\ CommittedInStep = 1
    /\ Len(history) = Len(step_history) + 1

\* ---------------------------------------------------------------- C21
\* C21: in every step _remove_last_state_message is called exactly once if
\* add_state_message was called in that step and not at all otherwise: a
\* step never makes more removals than it has staged state messages, and
\* when it returns it has made as many removals as add_state_message calls
\* (of which there is at most one).
C21_RemoveOncePerStage ==
    /\ state_adds \in {0, 1}
    /\ state_removals <= state_adds
    /\ StepReturned => state_removals = state_adds

\* ---------------------------------------------------------------- C22
\* Full detection has failed: it is run in automatic mode only.
DetectionFailed == neg_pc = "neg_failed" /\ tool_calling_setting = "auto"

\* Every probe of the parallel test has failed.
AllProbesFailed == \A m \in Methods : probe[m] = "failed"

\* C22: when every candidate method's probe fails during full detection,
\* in the parallel test or in the sequential fallback, resolution fails
\* with ConnectionError, returns no method and leaves the cache of the
\* connection empty; with four failed probes resolution never returns, and
\* a failed detection has probed every candidate.
C22_AllProbesFail ==
    /\ DetectionFailed =>
          /\ neg_error = "ConnectionError"
          /\ tool_calling_method = None
          /\ llm_method = None
          /\ AllProbesFailed \/ seq_index = Len(MethodsToTry)
    /\ AllProbesFailed => neg_pc \in {"detect_parallel", "neg_failed"}

\* Both the table's method and the four candidates of the sequential
\* fallback have failed.
C22_Witness ==
    /\ DetectionFailed
    /\ neg_error = "ConnectionError"
    /\ seq_index = Len(MethodsToTry)
    /\ probes_made = Len(MethodsToTry) + 1
    /\ llm_method = None

\* ---------------------------------------------------------------- C23
\* A method is requested explicitly (settings.tool_calling_method is not
\* 'auto'); resolution has returned a method to Agent.__init__.
ExplicitRequest == tool_calling_setting # "auto"

Resolved == neg_pc \in {"verify", "neg_done"}

\* C23: an explicitly requested method is validated by a single probe
\* before it is returned and cached: a resolution that returns has made
\* exactly one probe and returns and caches the requested method; one that
\* fails has made exactly one probe, fails with ConnectionError for raw and
\* with the configuration error (RuntimeError in the code) for the other
\* methods, returns nothing and, on a connection without cached method,
\* caches nothing.
C23_ExplicitValidated ==
    ExplicitRequest =>
      /\ Resolved =>
            /\ probes_made = 1
            /\ tool_calling_method = tool_calling_setting
            /\ llm_method = tool_calling_setting
      /\ neg_pc = "neg_failed" =>
            /\ probes_made = 1
            /\ neg_error = IF tool_calling_setting = "raw"
                           THEN "ConnectionError" ELSE "RuntimeError"
            /\ tool_calling_method = None
            /\ constructions = 1 => llm_method = None

\* ---------------------------------------------------------------- C24
\* Resolution starts in automatic mode on a connection with a cached method.
CacheHit == neg_pc = "neg_start" /\ tool_calling_setting = "auto" /\ llm_method # None

\* The step of a resolution that starts with a cache hit.
CacheHitReturns ==
    CacheHit =>
      /\ neg_pc' = "verify"
      /\ tool_calling_method' = llm_method
      /\ llm_method' = llm_method
      /\ probes_made' = probes_made
      /\ probe' = probe

\* C24: in automatic mode, when a method is already cached for the model
\* connection, resolution returns the cached value in one step, in which no
\* probe is issued and the cache does not change.
C24_CacheHit == [][CacheHitReturns]_vars

\* A second agent, in automatic mode, was given the cached method without a
\* probe, although the static table names another method for the model.
C24_Witness ==
    /\ constructions = 2
    /\ tool_calling_setting = "auto"
    /\ neg_pc = "verify"
    /\ probes_made = 0
    /\ llm_method # None
    /\ tool_calling_method = llm_method
    /\ KnownToolCallingMethod(chat_model_library, model_name) \notin {None, llm_method}

\* ---------------------------------------------------------------- C25
\* The method of the static table for the connection.
Known == KnownToolCallingMethod(chat_model_library, model_name)

\* Resolution starts in automatic mode, with no cached method and a match
\* in the static table.
TableMatch ==
    /\ neg_pc = "neg_start"
    /\ tool_calling_setting = "auto"
    /\ llm_method = None
    /\ Known # None

\* The steps of a resolution that uses the static table.
TableSteps ==
    /\ TableMatch /\ llm_verified = "True" =>
          /\ neg_pc' = "verify"
          /\ tool_calling_method' = Known
          /\ llm_method' = Known
          /\ probes_made = 0 /\ probes_made' = 0
    /\ TableMatch /\ llm_verified # "True" =>
          /\ neg_pc' = "known_probe"
          /\ UNCHANGED <<llm_method, tool_calling_method, probes_made>>
    /\ neg_pc = "known_probe" =>
          /\ probes_made = 0 /\ probes_made' = 1
          /\ \/ /\ neg_pc' = "verify"
                /\ tool_calling_method' = Known
                /\ llm_method' = Known
             \/ /\ neg_pc' = "detect_parallel"
                /\ probe' = [m \in Methods |-> "running"]
                /\ UNCHANGED <<llm_method, tool_calling_method>>

\* C25: in automatic mode with no cached method and a match in the static
\* table, the table's method is returned and cached with zero probes when
\* connectivity was already verified; otherwise it is probed once, and
\* then either returned and cached (the probe succeeded) or full detection
\* is started (the probe failed).
C25_StaticTable == [][TableSteps]_vars

\* The probe of the table's method has failed and full detection has begun.
C25_Witness ==
    /\ tool_calling_setting = "auto"
    /\ Known # None
    /\ llm_verified # "True"
    /\ neg_pc = "detect_parallel"
    /\ probes_made = 1
    /\ \A m \in Methods : probe[m] = "running"
    /\ llm_method = None

\* ---------------------------------------------------------------- C26
\* A step that leaves a cached method as it is.
CacheKept == llm_method # None => llm_method' = llm_method

\* C26: the negotiated-method cache of a model connection is write-once:
\* once a method has been cached for the connection, no later resolution
\* on it, by the same or another agent and with any requested method,
\* changes the cached value.
C26_CacheWriteOnce == [][CacheKept]_vars

\* ---------------------------------------------------------------- C27
\* create_procedural_memory has raised in the step in progress.
MemoryFailed == (InStep \/ StepReturned) /\ exc_from = "memory"

\* C27: a failure of the memory collaborator at the start of a step does
\* not change the outcome of the core loop: the exception does not reach
\* the handlers of step(), the failure counter keeps the value it had when
\* the step began, and the step does not return before it has called the
\* model.
C27_MemoryFailureIgnored ==
    MemoryFailed =>
      /\ pc \notin {"step_except", "retry_sleep"}
      /\ consecutive_failures = step_failures
      /\ StepReturned => model_calls > 0

\* ---------------------------------------------------------------- C28
\* The planner has put its guidance into the transcript in this step.
GuidanceInStep == Count(messages, "guidance") > Count(step_messages, "guidance")

\* The messages staged by the step before the model call, the directive of
\* the last step left aside.
StagedBeforeDirective ==
    IF IsLastStep(step, MaxSteps)
    THEN SubSeq(messages, 1, Len(messages) - 1)
    ELSE messages

\* C28: when the planner runs in a step its guidance message is placed in
\* the transcript immediately before the ephemeral state message: while the
\* model is called the state message is the last message staged (before
\* the directive of a last step) and the guidance is the message before
\* it; once the model output is committed the state message is removed and
\* the guidance is kept.
C28_GuidanceBeforeState ==
    /\ pc \in {"model_call", "model_retry"} /\ GuidanceInStep =>
          LET staged == StagedBeforeDirective
          IN  /\ Len(staged) >= 2
              /\ staged[Len(staged)] = "state"
              /\ staged[Len(staged) - 1] = "guidance"
    /\ ExecutingActions /\ GuidanceInStep => StagedInStep = 0

\* ---------------------------------------------------------------- C29
\* run() has left its loop at the failure-counter check or at the stopped
\* check of an iteration.
HaltedAtCheck ==
    /\ pc \in {"run_finally", "run_done"}
    /\ agent_run_error \in {"Stopped due to consecutive failures",
                             "Agent stopped programmatically"}

\* C29: in run() the pre-step hook and the post-step hook are each invoked
\* exactly once per call of step(), the pre-step hook before and the
\* post-step hook after that call: while on_step_start runs it has been
\* invoked once more than step() was called; inside step() both counts
\* agree and on_step_end is one behind; while on_step_end runs, and between
\* iterations, the three counts agree. No hook is invoked in an iteration
\* that halts on the failure-counter or stopped check.
C29_HooksOncePerStep ==
    /\ post_hooks <= step_count
    /\ step_count <= pre_hooks
    /\ pre_hooks <= post_hooks + 1
    /\ pc = "hook_start" => pre_hooks = step_count + 1 /\ post_hooks = step_count
    /\ InStep \/ StepReturned => pre_hooks = step_count /\ post_hooks = step_count - 1
    /\ pc \in {"hook_end", "loop_head", "poll", "poll_sleep"} =>
          pre_hooks = step_count /\ post_hooks = step_count
    /\ HaltedAtCheck => pre_hooks = step_count /\ post_hooks = step_count

\* A step was made, with both hooks, and the next iteration halted on the
\* failure counter.
C29_Witness ==
    /\ pc = "run_done"
    /\ agent_run_error = "Stopped due to consecutive failures"
    /\ step_count = 1
    /\ pre_hooks = 1
    /\ post_hooks = 1

\* ---------------------------------------------------------------- C30
\* The polling loop of run() while the agent is paused and not stopped.
Polling == pc \in {"poll", "poll_sleep"} /\ paused /\ ~stopped

\* A step of the polling loop: no step() is started.
PollingKeepsStep ==
    Polling => step_count' = step_count /\ pc' \in {"poll", "poll_sleep", "run_finally"}

\* run() has terminated.
Terminated == pc = "run_done"

\* C30, as stated: while the run is paused the loop polls without executing
\* a step until it is resumed or stopped; provided every pause is
\* eventually followed by resume() or stop() (and every call returns: the
\* fairness of SpecLive), run() eventually terminates.
C30_PausedRunTerminates ==
    /\ [][PollingKeepsStep]_vars
    /\ [](paused => <>(~paused \/ stopped)) => <>Terminated

\* C30, amended: while the run is paused the loop polls without executing
\* a step until it is resumed or stopped; provided the agent is eventually
\* left resumed or stopped for good (and every call returns), run()
\* eventually terminates.
C30_UnpausedRunTerminates ==
    /\ [][PollingKeepsStep]_vars
    /\ <>[](~paused \/ stopped) => <>Terminated

\* run() has terminated after a stop that found the agent paused: the
\* polling loop was left and the step it went on to was interrupted.
C30_Witness ==
    /\ Terminated
    /\ paused
    /\ stopped
    /\ run_outcome = "returned"
    /\ agent_run_error = "Agent stopped programmatically"
    /\ step_count = 1
    /\ history = <<>>

\* ---------------------------------------------------------------- C31
\* The element summary of the description returned: its lines after the
\* header line.
Summary == Tail(description)

\* C31: the element summary of a snapshot is 'empty page', with no marker,
\* when there are no interactive elements; otherwise it is the element
\* lines between a first line, which is the 'N pixels above' marker when
\* pixels_above > 0 and '[Start of page]' when it is 0 or absent, and a
\* last line, which is the 'N pixels below' marker when pixels_below > 0
\* and '[End of page]' otherwise.
C31_ElementSummary ==
    prompt_pc = "described" =>
      /\ Head(description) = Header
      /\ elements = <<>> => Summary = <<EmptyPage>>
      /\ elements # <<>> =>
            /\ Len(Summary) = Len(elements) + 2
            /\ SubSeq(Summary, 2, Len(Summary) - 1) = elements
            /\ \A n \in 1..120 :
                  pixels_above = <<n>> => Summary[1] = AboveMarker(n)
            /\ pixels_above \in {<<>>, <<0>>} => Summary[1] = StartOfPage
            /\ \A n \in 1..120 :
                  pixels_below = <<n>> => Summary[Len(Summary)] = BelowMarker(n)
            /\ pixels_below \in {<<>>, <<0>>, <<-1>>} => Summary[Len(Summary)] = EndOfPage

\* pixels_above = 120, pixels_below = 0, one element: the 120-pixels-above
\* marker comes first and '[End of page]' last.
C31_Witness ==
    /\ prompt_pc = "described"
    /\ pixels_above = <<120>>
    /\ pixels_below = <<0>>
    /\ Len(elements) = 1
    /\ Summary = <<AboveMarker(120)>> \o elements \o <<EndOfPage>>

\* ---------------------------------------------------------------- C32
\* A CancelledError has reached `except asyncio.CancelledError` of the
\* outer try of step().
CancelledInStep == pc = "step_except" /\ exc = "Cancelled"

\* The step of the handler on a CancelledError.
CancelledStepReturns ==
    CancelledInStep =>
      /\ result = <<>>
      /\ pc' = "step_done"
      /\ last_result' = <<ActionResult(FALSE, CtrlCMsg)>>
      /\ run_outcome' = "running"
      /\ history' = history

\* C32: an external cancellation that reaches the outer handler of step()
\* never propagates out of step(): the step's result list is empty, so the
\* return of the finally block discards the InterruptedError and step()
\* returns normally, with last_result set to the Ctrl+C error; run() then
\* goes on to the head of its next iteration (unless the post-step hook
\* ends the run).
C32_CancelReturns ==
    /\ [][CancelledStepReturns]_vars
    /\ CancelledInStep ~> (pc = "loop_head" \/ pc = "run_finally")

\* A step was cancelled while it awaited the planner and run() is at the
\* head of its next iteration.
C32_Witness ==
    /\ pc = "loop_head"
    /\ step = 1
    /\ planner # "off"
    /\ n_steps = FirstStep
    /\ last_result = <<ActionResult(FALSE, CtrlCMsg)>>
    /\ run_outcome = "running"
    /\ history = <<>>

\* ---------------------------------------------------------------- C33
\* C33: the consecutive-failure counter changes in a step in exactly these
\* ways: until the step ends it keeps the value it had when the step
\* began (it is one more while _handle_step_error sleeps); when the step
\* has returned it is 0 if multi_act returned, also when the last action
\* result carries an error, it is one more than at the start if the step
\* ended through an exception handled by _handle_step_error, and it is
\* unchanged if the step ended through an interrupt or a cancellation.
C33_CounterChanges ==
    /\ InStep /\ pc \notin {"retry_sleep", "step_done"} =>
          consecutive_failures = step_failures
    /\ pc = "retry_sleep" => consecutive_failures = step_failures + 1
    /\ StepReturned /\ exc = None => consecutive_failures = 0
    /\ StepReturned /\ exc \in ModelErrors => consecutive_failures = step_failures + 1
    /\ StepReturned /\ exc \in {"Interrupted", "Cancelled"} =>
          consecutive_failures = step_failures

\* multi_act has returned a batch whose last result carries an error, in a
\* step that began with a failure counted: the counter is 0.
C33_Witness ==
    /\ StepReturned
    /\ exc = None
    /\ step_failures = 1
    /\ consecutive_failures = 0
    /\ last_result # <<>>
    /\ HasError(last_result[Len(last_result)])

\* ---------------------------------------------------------------- C34
\* The step has obtained a parsed model output and passed the second check
\* of the flags: it is in multi_act, or has returned from it, or was ended
\* by save_conversation or add_model_output.
PassedSecondCheck ==
    \/ ExecutingActions
    \/ pc \in {"step_except", "retry_sleep", "step_done"} /\
         \/ exc = None
         \/ exc_from \in {"save_conversation", "add_model_output", "multi_act",
                           "controller.act", "multi_act_cancelled"}

\* A step of the program that changes the step counter adds 1 to it.
CounterAdvances == n_steps' = n_steps \/ n_steps' = n_steps + 1

\* C34: the step counter n_steps advances by exactly 1 in a step that
\* obtains a parsed model output and passes the post-model pause/stop
\* check, and is unchanged in every other step (failure before or during
\* the model call, interrupt before or right after the model call); it
\* never decreases.
C34_StepCounter ==
    /\ [][CounterAdvances]_vars
    /\ [](InStep \/ StepReturned =>
            n_steps = IF PassedSecondCheck THEN step_n_steps + 1 ELSE step_n_steps)

\* The second step has returned from multi_act, as the first one did: the
\* counter was advanced twice.
C34_Witness ==
    /\ StepReturned
    /\ exc = None
    /\ step_count = 2
    /\ step_n_steps = FirstStep + 1
    /\ n_steps = FirstStep + 2

\* ---------------------------------------------------------------- C35
\* The step has returned after the executor raised on the k-th action of
\* its batch, k > 1 (the locals of multi_act are still to be seen).
ExecutorRaisedLate ==
    /\ StepReturned
    /\ exc_from = "controller.act"
    /\ Len(executed) > 1

\* C35: when the executor raises an exception on the k-th action of a
\* batch (k > 1), the results of the k-1 actions already executed are
\* discarded: multi_act held k-1 results, but the step's result list and
\* last_result are a single error result, and the one history entry the
\* step appends records only that error.
C35_PartialResultsDiscarded ==
    ExecutorRaisedLate =>
      LET error == <<ActionResult(FALSE, ErrorMsg(exc))>>
      IN  /\ Len(results) = Len(executed) - 1
          /\ \A k \in 1..Len(results) : ~HasError(results[k])
          /\ result = error
          /\ last_result = error
          /\ history = Append(step_history,
                              [model_output |-> TRUE, result |-> error,
                               step_number |-> n_steps])

\* The executor raised on the second action of a batch, after the first
\* one had returned its result.
C35_Witness ==
    /\ ExecutorRaisedLate
    /\ executed = <<ActionNames[1], ActionNames[2]>>
    /\ results = <<ActionResult(FALSE, None)>>
    /\ Len(last_result) = 1
    /\ HasError(last_result[1])
    /\ Len(history) = Len(step_history) + 1

\* ---------------------------------------------------------------- C36
\* The flags are found set at the check between two actions of the batch
\* of a step; the step has returned after that.
FlagsSetBetweenActions ==
    /\ pc = "act_check"
    /\ caller = "step"
    /\ i > 0
    /\ StoppedOrPaused

InterruptedBetweenActions ==
    /\ StepReturned
    /\ exc_from = "multi_act"
    /\ executed # <<>>

\* The check between two actions ends the batch; last_model_output is
\* assigned only in a step that returns from multi_act.
BatchInterrupted ==
    /\ FlagsSetBetweenActions =>
          /\ pc' = "step_except"
          /\ exc' = "Interrupted"
          /\ executed' = executed
    /\ last_model_output' # last_model_output => pc' = "step_done" /\ exc' = None

\* C36: when pause or stop is set between two actions of a batch, the
\* remaining actions are not executed and the step appends no history
\* entry and does not update last_model_output, although the step counter
\* was advanced, the model output was committed to the transcript and the
\* earlier actions of the batch were executed; no action of that output is
\* executed a second time after resumption: whatever a step executes is a
\* prefix of the output of a model call of that same step.
C36_InterruptedBatch ==
    /\ [][BatchInterrupted]_vars
    /\ [](InterruptedBetweenActions =>
            /\ exc = "Interrupted"
            /\ Len(executed) < Len(actions)
            /\ IsPrefix(executed, actions)
            /\ history = step_history
            /\ last_result = <<ActionResult(FALSE, PausedMsg)>>
            /\ n_steps = step_n_steps + 1
            /\ CommittedInStep = 1)
    /\ [](InStep /\ executed # <<>> =>
            /\ model_calls > 0
            /\ actions = model_output.action
            /\ IsPrefix(executed, actions))

\* A step was paused after the first action of a batch of two or more: one
\* action executed, no history entry, the counter advanced.
C36_Witness ==
    /\ InterruptedBetweenActions
    /\ paused
    /\ ~stopped
    /\ Len(executed) = 1
    /\ Len(actions) >= 2
    /\ history = step_history
    /\ n_steps = step_n_steps + 1

\* ---------------------------------------------------------------- C37
\* run() has left its polling loop because stop() was set while the agent
\* was paused, and has not reached the head of its loop since.
StoppedWhilePaused == agent_run_error = "Agent stopped programmatically while paused"

\* The head of the iteration that follows: it halts, at the stopped check
\* or by exhausting max_steps when the step was interrupted, and at the
\* failure check only when the step failed.
HaltsAtNextHead ==
    StoppedWhilePaused /\ pc = "loop_head" =>
      /\ pc' = "run_finally"
      /\ run_outcome' = "returned"
      /\ agent_run_error' \in {"Agent stopped programmatically",
                                "Failed to complete task in maximum steps",
                                "Stopped due to consecutive failures"}
      /\ last_result = <<ActionResult(FALSE, PausedMsg)>> =>
            agent_run_error' # "Stopped due to consecutive failures"

\* C37: when stop() is set while run() is polling in the paused state, the
\* loop leaves only the polling loop: it still invokes the pre-step hook,
\* enters step() once, which stages no state message, calls no model and
\* executes no action, and which, having captured the app state, is
\* interrupted at the first check of the flags, overwriting last_result
\* with the pause error and recording no history; it invokes the post-step
\* hook, and (unless a hook raises) halts only at the head of the
\* following iteration, at the stopped check or by exhausting max_steps.
C37_StopWhilePaused ==
    /\ [][HaltsAtNextHead]_vars
    /\ [](StoppedWhilePaused =>
            /\ stopped
            /\ pc \in {"hook_start", "step_begin", "step_except", "retry_sleep",
                        "step_done", "hook_end", "loop_head", "run_finally", "run_done"}
            /\ pc \in {"run_finally", "run_done"} => run_outcome = "raised"
            /\ pc = "hook_start" => pre_hooks = step_count + 1
            /\ pc \in {"hook_end", "loop_head"} =>
                  pre_hooks = step_count /\ post_hooks = step_count
            /\ InStep \/ StepReturned =>
                  /\ state_adds = 0
                  /\ messages = step_messages
                  /\ model_calls = 0
                  /\ executed = <<>>
            /\ StepReturned /\ app_state /\ exc_from # "memory" =>
                  /\ exc_from = "first_check"
                  /\ last_result = <<ActionResult(FALSE, PausedMsg)>>
                  /\ history = step_history
                  /\ consecutive_failures = step_failures)

\* The step entered after the polling loop was left has been interrupted
\* at its first check, and run() is in the post-step hook.
C37_Witness ==
    /\ StoppedWhilePaused
    /\ pc = "hook_end"
    /\ paused
    /\ stopped
    /\ last_result = <<ActionResult(FALSE, PausedMsg)>>
    /\ post_hooks = step_count
    /\ step_count >= 1

\* ---------------------------------------------------------------- C38
\* The step has returned after _handle_step_error returned its result.
ErrorHandled == StepReturned /\ exc \in ModelErrors /\ result # <<>>

\* C38: a step that fails before the app-state snapshot is captured
\* (get_app_state raises) increments the consecutive-failure counter and
\* sets last_result to the error but appends no history entry; every other
\* step ended by a handled exception appends exactly one history entry,
\* which holds the single error result.
C38_HistoryOfFailedStep ==
    ErrorHandled =>
      LET error == <<ActionResult(FALSE, ErrorMsg(exc))>>
      IN  /\ result = error
          /\ last_result = error
          /\ consecutive_failures = step_failures + 1
          /\ exc_from = "get_app_state" => ~app_state /\ history = step_history
          /\ exc_from # "get_app_state" =>
                /\ app_state
                /\ history = Append(step_history,
                                    [model_output |-> model_output.present,
                                     result |-> error, step_number |-> n_steps])

\* get_app_state raised in the second step: the failure is counted and
\* last_result is the error, but the history still has the one entry of
\* the first step.
C38_Witness ==
    /\ ErrorHandled
    /\ exc_from = "get_app_state"
    /\ step_count = 2
    /\ Len(history) = 1
    /\ history = step_history
    /\ consecutive_failures = step_failures + 1
    /\ HasError(last_result[1])

\* ---------------------------------------------------------------- C39
\* C39: the step_number recorded in the metadata of successive history
\* entries is non-decreasing in append order, and no entry carries a number
\* beyond the step counter; the number is not necessarily unique (see the
\* witness).
C39_StepNumbersOrdered ==
    /\ \A k \in 1..Len(history) :
          history[k].step_number \in FirstStep..n_steps
    /\ \A k \in 1..(Len(history) - 1) :
          history[k].step_number <= history[k + 1].step_number

\* The entry of a step that failed before the counter advanced carries the
\* same number as the entry of the preceding successful step.
C39_Witness ==
    /\ StepReturned
    /\ Len(history) = 2
    /\ ErrorFree(history[1].result)
    /\ history[1].model_output
    /\ HasError(history[2].result[1])
    /\ n_steps = step_n_steps
    /\ history[1].step_number = history[2].step_number
====
